---- MODULE Spec2Model ----
(***************************************************************************)
(* Model of the ai-scouting service of the fastbreak repository:           *)
(*   - MomentValuator   (src/analysis/moment_valuator.py)                  *)
(*   - the pydantic records of src/models/moment_analysis.py               *)
(*   - AIScoutingService (src/services/ai_service.py)                      *)
(*   - PerformanceAnalyzer (src/analysis/performance_analyzer.py)          *)
(*   - ReasoningService / DatabaseClient (store, retrieval, search and     *)
(*     the functions that word a decision)                                 *)
(*   - CorrelationContext, with_retry and error_handler_middleware         *)
(*     (src/utils/error_handling.py)                                       *)
(*                                                                         *)
(* Numbers.  Python floats are modelled in fixed point:                    *)
(*   scores, rarities, impacts (percent)   : thousandths  (50.0 -> 50000)  *)
(*   factor value, confidence, sentiment   : thousandths  (0.5  -> 500)    *)
(*   factor weight                         : hundredths   (0.35 -> 35)     *)
(*   current_price                         : whole price units             *)
(*   fair_value, price_range_low/high      : 1/10000 price unit            *)
(* Divisions round down; a ratio comparison a/b > c is done by cross       *)
(* multiplication.                                                         *)
(***************************************************************************)
EXTENDS Integers, Sequences, FiniteSets, TLC

VARIABLES
    vcall,      \* the call made on a pure function (valuator, analyzer, reasoning)
                \* and its outcome
    cache,      \* AIScoutingService.redis_client: key -> cached blob
    nba,        \* NBAStatsClient: session, the sessions still open, cached responses
    tasks,      \* the analyze_moment coroutines of one batch_analyze_moments call
    batch,      \* the batch_analyze_moments call itself
    pool,       \* DatabaseClient.pool is set
    db,         \* the durable store: parent, factor and context rows
    calls,      \* the store_reasoning coroutines
    reads,      \* the get_reasoning_by_moment or search_reasoning coroutine
    context,    \* CorrelationContext._context: key -> correlation id
    requests,   \* the error_handler_middleware coroutines, one per request
    retry       \* the with_retry call

vars == <<vcall, cache, nba, tasks, batch, pool, db, calls, reads, context, requests, retry>>

-----------------------------------------------------------------------------
(* Python builtins *)

max(a, b) == IF a >= b THEN a ELSE b
min(a, b) == IF a <= b THEN a ELSE b

\* dict.get(key, default)
Get(d, k, default) == IF k \in DOMAIN d THEN d[k] ELSE default

\* an empty dict, and None where the code only tests truthiness
EmptyDict == [k \in {} |-> 0]

\* seq[-n:]
LastN(seq, n) == IF Len(seq) <= n THEN seq ELSE SubSeq(seq, Len(seq) - n + 1, Len(seq))

RECURSIVE SumSeq(_)
SumSeq(s) == IF s = <<>> THEN 0 ELSE Head(s) + SumSeq(Tail(s))

\* floor of the square root
Isqrt(n) == CHOOSE k \in 0..1000 : k * k <= n /\ n < (k + 1) * (k + 1)

\* np.log10 in thousandths, rounded down to the leading digit of n
RECURSIVE Log10Milli(_)
Log10Milli(n) ==
    IF n >= 10 THEN 1000 + Log10Milli(n \div 10)
    ELSE CASE n <= 1 -> 0
           [] n = 2 -> 301
           [] n = 3 -> 477
           [] n = 4 -> 602
           [] n = 5 -> 698
           [] n = 6 -> 778
           [] n = 7 -> 845
           [] n = 8 -> 903
           [] OTHER -> 954

\* a Python float handed to a record field (the field's declared type decides)
PyFloat(x) == [py |-> "float", x |-> x]

-----------------------------------------------------------------------------
(* src/models/moment_analysis.py: what each record's constructor accepts *)

\* ValuationFactor: weight ge 0 le 1, impact ge -100 le 100
AcceptsValuationFactor(k) ==
    /\ 0 <= k.weight /\ k.weight <= 100
    /\ -100000 <= k.impact /\ k.impact <= 100000

\* PlayerPerformanceFactor: two Dict fields, a str field, clutch_performance ge 0 le 1
AcceptsPlayerPerformanceFactor(k) ==
    /\ AcceptsValuationFactor(k)
    /\ k.recent_games_performance.py = "dict"
    /\ k.season_performance.py = "dict"
    /\ k.career_trajectory.py = "str"
    /\ 0 <= k.clutch_performance /\ k.clutch_performance <= 1000

\* ScarcityFactor: both rarities ge 0 le 1, both counts ge 0
AcceptsScarcityFactor(k) ==
    /\ AcceptsValuationFactor(k)
    /\ 0 <= k.serial_number_rarity /\ k.serial_number_rarity <= 1000
    /\ 0 <= k.moment_type_rarity /\ k.moment_type_rarity <= 1000
    /\ k.player_moment_count >= 0
    /\ k.total_circulation >= 0

\* MarketTrendFactor
AcceptsMarketTrendFactor(k) ==
    /\ AcceptsValuationFactor(k)
    /\ -100000 <= k.price_momentum /\ k.price_momentum <= 100000
    /\ -100000 <= k.volume_trend /\ k.volume_trend <= 100000
    /\ -1000 <= k.market_sentiment /\ k.market_sentiment <= 1000

\* SocialSentimentFactor
AcceptsSocialSentimentFactor(k) ==
    /\ AcceptsValuationFactor(k)
    /\ k.social_mentions >= 0
    /\ -1000 <= k.sentiment_score /\ k.sentiment_score <= 1000
    /\ 0 <= k.viral_potential /\ k.viral_potential <= 100000
    /\ k.influencer_mentions >= 0

\* MomentValuation: fair_value gt 0, confidence ge 0 le 1, both range ends gt 0
AcceptsMomentValuation(k) ==
    /\ k.fair_value > 0
    /\ 0 <= k.confidence_score /\ k.confidence_score <= 1000
    /\ k.price_range_low > 0
    /\ k.price_range_high > 0

\* MomentAnalysisResult: the fields without a default, and the type of valuation
MomentAnalysisResultRequired ==
    {"moment_id", "player_id", "valuation", "factors", "player_analysis",
     "market_analysis", "risk_assessment", "timestamp"}

AcceptsMomentAnalysisResult(keys, valuation_model) ==
    /\ MomentAnalysisResultRequired \subseteq keys
    /\ valuation_model = "ValuationResult"

-----------------------------------------------------------------------------
(* src/analysis/moment_valuator.py *)

factor_weights ==
    [player_performance |-> 35, scarcity |-> 25, market_trend |-> 20, social_sentiment |-> 20]

moment_type_scores ==
    [dunk |-> 85, game_winner |-> 95, milestone |-> 90, three_pointer |-> 70,
     assist |-> 60, steal |-> 75, block |-> 80, rebound |-> 50]

\* the keyword arguments calculate_scarcity_factor hands to ScarcityFactor
calculate_scarcity_factor(moment_request, total_moments_for_player, total_circulation) ==
    LET serial_rarity == min(100000, max(0, 100000 - moment_request.serial_number * 100))
        moment_type_rarity == Get(moment_type_scores, moment_request.moment_type, 60) * 1000
        player_scarcity == min(100000, max(0, 100000 - total_moments_for_player * 1000))
        circulation_scarcity == min(100000, max(0, 100000 - total_circulation * 10))
        overall_scarcity == (serial_rarity * 4 + moment_type_rarity * 3
                             + player_scarcity * 2 + circulation_scarcity) \div 10
        impact == ((overall_scarcity - 50000) * 3) \div 2
    IN [factor_type |-> "scarcity",
        weight |-> factor_weights.scarcity,
        value |-> overall_scarcity \div 100,
        impact |-> impact,
        serial_number_rarity |-> serial_rarity,
        moment_type_rarity |-> moment_type_rarity,
        player_moment_count |-> total_moments_for_player,
        total_circulation |-> total_circulation]

\* the keyword arguments calculate_market_trend_factor hands to MarketTrendFactor
calculate_market_trend_factor(moment_request, price_history, comparable_sales) ==
    IF price_history = <<>> THEN
        [factor_type |-> "market_trend", weight |-> factor_weights.market_trend,
         value |-> 500, impact |-> 0, price_momentum |-> 0, volume_trend |-> 0,
         market_sentiment |-> 0, comparable_sales |-> <<>>]
    ELSE
    LET recent == LastN(price_history, 10)
        n == Len(recent)
        price_momentum ==
            IF n >= 2
            THEN max(-100000, min(100000,
                     ((recent[n].price - recent[1].price) * 100000) \div recent[1].price))
            ELSE 0
        recent_volumes == [i \in 1..n |-> Get(recent[i], "volume", 0)]
        volume_trend ==
            IF n >= 2 /\ SumSeq(recent_volumes) > 0
            THEN max(-100000, min(100000,
                     ((recent_volumes[n] - recent_volumes[1]) * 100000)
                         \div max(recent_volumes[1], 1)))
            ELSE 0
        total_comparable == SumSeq([i \in 1..Len(comparable_sales) |-> comparable_sales[i].price])
        market_sentiment ==
            IF comparable_sales # <<>>
            THEN max(-1000, min(1000,
                     ((moment_request.current_price * Len(comparable_sales) - total_comparable)
                         * 1000) \div total_comparable))
            ELSE 0
        trend_score == ((price_momentum + 100000) * 4) \div 20
                       + ((volume_trend + 100000) * 3) \div 20
                       + (market_sentiment + 1000) * 15
        impact == ((trend_score - 50000) * 12) \div 10
    IN [factor_type |-> "market_trend", weight |-> factor_weights.market_trend,
        value |-> trend_score \div 100, impact |-> impact,
        price_momentum |-> price_momentum, volume_trend |-> volume_trend,
        market_sentiment |-> market_sentiment, comparable_sales |-> comparable_sales]

\* the payload substituted when social_data is None or empty
default_social_data ==
    [mentions |-> 100, sentiment |-> 100, viral_score |-> 30000, influencer_mentions |-> 5]

\* the social score with the mentions score left uncapped
calculate_social_sentiment_factor_uncapped(player_id, social_data_in) ==
    LET social_data == IF DOMAIN social_data_in = {} THEN default_social_data ELSE social_data_in
        mentions == Get(social_data, "mentions", 0)
        sentiment == Get(social_data, "sentiment", 0)
        viral_score == Get(social_data, "viral_score", 0)
        influencer_mentions == Get(social_data, "influencer_mentions", 0)
        mentions_score == Log10Milli(max(1, mentions)) * 20
        sentiment_score == (sentiment + 1000) * 50
        social_score == (mentions_score * 3 + sentiment_score * 4 + viral_score * 2
                         + min(100000, influencer_mentions * 10000)) \div 10
        impact == ((social_score - 50000) * 8) \div 10
    IN [factor_type |-> "social_sentiment", weight |-> factor_weights.social_sentiment,
        value |-> social_score \div 100, impact |-> impact,
        social_mentions |-> mentions, sentiment_score |-> sentiment,
        viral_potential |-> viral_score, influencer_mentions |-> influencer_mentions]

\* the keyword arguments calculate_social_sentiment_factor hands to SocialSentimentFactor
calculate_social_sentiment_factor(player_id, social_data_in) ==
    LET social_data == IF DOMAIN social_data_in = {} THEN default_social_data ELSE social_data_in
        mentions == Get(social_data, "mentions", 0)
        sentiment == Get(social_data, "sentiment", 0)
        viral_score == Get(social_data, "viral_score", 0)
        influencer_mentions == Get(social_data, "influencer_mentions", 0)
        mentions_score == min(100000, Log10Milli(max(1, mentions)) * 20)
        sentiment_score == (sentiment + 1000) * 50
        social_score == (mentions_score * 3 + sentiment_score * 4 + viral_score * 2
                         + min(100000, influencer_mentions * 10000)) \div 10
        impact == ((social_score - 50000) * 8) \div 10
    IN [factor_type |-> "social_sentiment", weight |-> factor_weights.social_sentiment,
        value |-> social_score \div 100, impact |-> impact,
        social_mentions |-> mentions, sentiment_score |-> sentiment,
        viral_potential |-> viral_score, influencer_mentions |-> influencer_mentions]

\* the keyword arguments _create_performance_factor hands to PlayerPerformanceFactor
create_performance_factor(performance_metrics) ==
    LET overall_score == performance_metrics.recent_form_score * 400
                         + performance_metrics.season_consistency * 300
                         + performance_metrics.clutch_performance * 300
        impact == ((overall_score - 50000) * 3) \div 2
    IN [factor_type |-> "player_performance", weight |-> factor_weights.player_performance,
        value |-> overall_score \div 100, impact |-> impact,
        recent_games_performance |-> PyFloat(performance_metrics.recent_form_score * 1000),
        season_performance |-> PyFloat(performance_metrics.season_consistency * 1000),
        career_trajectory |-> PyFloat(performance_metrics.breakout_potential * 1000),
        clutch_performance |-> performance_metrics.clutch_performance * 1000]

\* np.std of the factor values (population standard deviation), thousandths
StdMilli(values) ==
    LET n == Len(values)
        mean == SumSeq(values) \div n
        sq == [i \in 1..n |-> (values[i] - mean) * (values[i] - mean)]
    IN Isqrt(SumSeq(sq) \div n)

\* fair value (1/10000 of base_price's unit) and confidence (thousandths)
calculate_fair_value(factors, base_price) ==
    LET n == Len(factors)
        total_impact == SumSeq([i \in 1..n |-> factors[i].impact * factors[i].weight])
        total_weight == SumSeq([i \in 1..n |-> factors[i].weight])
        avg_impact == IF total_weight > 0 THEN total_impact \div total_weight ELSE 0
        impact_multiplier == 10000 + avg_impact \div 10
        fair_value == base_price * impact_multiplier
        factor_values == [i \in 1..n |-> factors[i].value]
        confidence == IF n > 1
                      THEN max(300, min(1000, 1000 - StdMilli(factor_values)))
                      ELSE 500
    IN [fair_value |-> fair_value, confidence |-> confidence]

\* the if-chain with its first comparison made non-strict
recommendation_of_ge(fair_value, current_price) ==
    IF fair_value * 100 >= current_price * 120 THEN "Strong Buy"
    ELSE IF fair_value * 100 > current_price * 105 THEN "Buy"
    ELSE IF fair_value * 100 > current_price * 95 THEN "Hold"
    ELSE IF fair_value * 100 > current_price * 80 THEN "Sell"
    ELSE "Strong Sell"

\* analyze_moment's recommendation; fair_value and current_price in one unit
recommendation_of(fair_value, current_price) ==
    IF fair_value * 100 > current_price * 120 THEN "Strong Buy"
    ELSE IF fair_value * 100 > current_price * 105 THEN "Buy"
    ELSE IF fair_value * 100 > current_price * 95 THEN "Hold"
    ELSE IF fair_value * 100 > current_price * 80 THEN "Sell"
    ELSE "Strong Sell"

\* a valuation whose price range ends at the fair value
valuation_of_flat(moment_request, factors) ==
    LET fc == calculate_fair_value(factors, moment_request.current_price)
    IN [moment_id |-> moment_request.moment_id,
        fair_value |-> fc.fair_value,
        confidence_score |-> fc.confidence,
        price_range_low |-> (fc.fair_value * 85) \div 100,
        price_range_high |-> fc.fair_value,
        recommendation |-> recommendation_of(fc.fair_value,
                                             moment_request.current_price * 10000)]

\* the keyword arguments analyze_moment hands to MomentValuation
valuation_of(moment_request, factors) ==
    LET fc == calculate_fair_value(factors, moment_request.current_price)
    IN [moment_id |-> moment_request.moment_id,
        fair_value |-> fc.fair_value,
        confidence_score |-> fc.confidence,
        price_range_low |-> (fc.fair_value * 85) \div 100,
        price_range_high |-> (fc.fair_value * 115) \div 100,
        recommendation |-> recommendation_of(fc.fair_value,
                                             moment_request.current_price * 10000)]

\* the four factors analyze_moment computes, in its order
factors_of(moment_request, player_performance, market_data, social_data) ==
    << create_performance_factor(player_performance),
       calculate_scarcity_factor(moment_request,
                                 Get(market_data, "total_moments_for_player", 50),
                                 Get(market_data, "total_circulation", 1000)),
       calculate_market_trend_factor(moment_request,
                                     Get(market_data, "price_history", <<>>),
                                     Get(market_data, "comparable_sales", <<>>)),
       calculate_social_sentiment_factor(moment_request.player_id, social_data) >>

\* the keyword arguments analyze_moment hands to MomentAnalysisResult
analysis_result_keys ==
    {"moment_id", "valuation", "factors", "player_analysis", "market_analysis",
     "risk_assessment", "recommendations", "analysis_metadata"}

Raised(what) == [status |-> "raised", error |-> what, moment_id |-> "", factors |-> <<>>]

\* MomentValuator.analyze_moment: every record it builds is validated when built,
\* and the first one rejected raises
MomentValuator_analyze_moment(moment_request, player_performance, market_data, social_data) ==
    LET fs == factors_of(moment_request, player_performance, market_data, social_data)
        valuation == valuation_of(moment_request, fs)
    IN IF ~AcceptsPlayerPerformanceFactor(fs[1])
         THEN Raised("ValidationError: PlayerPerformanceFactor")
       ELSE IF ~AcceptsScarcityFactor(fs[2])
         THEN Raised("ValidationError: ScarcityFactor")
       ELSE IF ~AcceptsMarketTrendFactor(fs[3])
         THEN Raised("ValidationError: MarketTrendFactor")
       ELSE IF ~AcceptsSocialSentimentFactor(fs[4])
         THEN Raised("ValidationError: SocialSentimentFactor")
       ELSE IF ~AcceptsMomentValuation(valuation)
         THEN Raised("ValidationError: MomentValuation")
       ELSE IF ~AcceptsMomentAnalysisResult(analysis_result_keys, "MomentValuation")
         THEN Raised("ValidationError: MomentAnalysisResult")
       ELSE [status |-> "ok", error |-> "", moment_id |-> moment_request.moment_id,
             factors |-> [i \in 1..4 |-> fs[i].factor_type]]

\* MomentValuator.batch_analyze_moments: the results list it returns (their moment ids)
RECURSIVE batch_analyze_moments(_, _, _)
batch_analyze_moments(moment_requests, player_performances, market_data) ==
    IF moment_requests = <<>> THEN <<>>
    ELSE LET moment_request == Head(moment_requests)
             rest == batch_analyze_moments(Tail(moment_requests), player_performances, market_data)
         IN IF moment_request.player_id \in DOMAIN player_performances
            THEN LET r == MomentValuator_analyze_moment(
                              moment_request,
                              player_performances[moment_request.player_id],
                              Get(market_data, moment_request.moment_id, EmptyDict),
                              EmptyDict)
                 IN IF r.status = "ok" THEN <<r.moment_id>> \o rest ELSE rest
            ELSE rest

\* a.fair_value / a.current_price < b.fair_value / b.current_price
upside_less(a, b) == a.fair_value * b.current_price < b.fair_value * a.current_price

\* list.sort(key=upside, reverse=True): stable, so x goes behind every entry whose
\* key is not smaller
insert_by_upside(sorted, x) ==
    LET k == Cardinality({i \in 1..Len(sorted) : ~upside_less(sorted[i], x)})
    IN SubSeq(sorted, 1, k) \o <<x>> \o SubSeq(sorted, k + 1, Len(sorted))

RECURSIVE sort_by_upside(_)
sort_by_upside(s) ==
    IF s = <<>> THEN <<>>
    ELSE insert_by_upside(sort_by_upside(SubSeq(s, 1, Len(s) - 1)), s[Len(s)])

\* the filter without its confidence test
is_undervalued_any_confidence(result, min_confidence, min_upside) ==
    result.fair_value * 1000 > result.current_price * (1000 + min_upside)

\* the filter of get_undervalued_moments; min_confidence and min_upside in thousandths
is_undervalued(result, min_confidence, min_upside) ==
    /\ result.confidence_score >= min_confidence
    /\ result.fair_value * 1000 > result.current_price * (1000 + min_upside)

\* MomentValuator.get_undervalued_moments
get_undervalued_moments(analysis_results, min_confidence, min_upside) ==
    sort_by_upside(SelectSeq(analysis_results,
                             LAMBDA r : is_undervalued(r, min_confidence, min_upside)))

-----------------------------------------------------------------------------
(* src/analysis/performance_analyzer.py and src/models/player_stats.py.  The scores the
   analyzer computes are in thousandths (50.0 -> 50000); minutes, counts and the
   efficiency rating are whole numbers, the usage rate is in thousandths. *)

\* floor of the square root, by bisection between lo and hi
RECURSIVE SqrtBetween(_, _, _)
SqrtBetween(n, lo, hi) ==
    IF lo >= hi THEN lo
    ELSE LET mid == (lo + hi + 1) \div 2
         IN IF mid * mid <= n THEN SqrtBetween(n, mid, hi) ELSE SqrtBetween(n, lo, mid - 1)

IsqrtWide(n) == SqrtBetween(n, 0, 46340)

\* GameStats.efficiency_rating
efficiency_rating(game) ==
    game.points + game.rebounds + game.assists + game.steals + game.blocks
    - (game.field_goals_attempted - game.field_goals_made)
    - (game.free_throws_attempted - game.free_throws_made)
    - game.turnovers

\* the composite score of one game, capped at 100 from above
game_score(game) ==
    LET raw == (game.points * 25000) \div 30 + game.rebounds * 1000
               + (game.assists * 15000) \div 12 + game.steals * 2500 + game.blocks * 2500
               + (efficiency_rating(game) * 25000) \div 30
    IN min((raw * min(game.minutes_played, 36)) \div 36, 100000)

\* 1 / (i + 1) for the i-th game, over the common denominator 2520
recency_weight(i) == 2520 \div i

\* PerformanceAnalyzer.calculate_recent_form_score with its default weights
calculate_recent_form_score(recent_games) ==
    IF recent_games = <<>> THEN 50000
    ELSE LET n == Len(recent_games)
             total_weight == SumSeq([i \in 1..n |-> recency_weight(i)])
         IN SumSeq([i \in 1..n |-> game_score(recent_games[i]) * recency_weight(i)])
                \div total_weight

\* np.std(values) / np.mean(values) in thousandths, 1.0 for a zero mean
coefficient_of_variation(values) ==
    LET n == Len(values)
        total == SumSeq(values)
        squares == SumSeq([i \in 1..n |-> (n * values[i] - total) * (n * values[i] - total)])
    IN IF total = 0 THEN 1000
       ELSE (IsqrtWide((squares \div n) * 10000) * 10) \div total

\* a consistency that needs no minimum number of games
calculate_season_consistency_any_length(season_stats, recent_games) ==
    IF recent_games = <<>> THEN 50000
    ELSE LET n == Len(recent_games)
             points_cv == coefficient_of_variation([i \in 1..n |-> recent_games[i].points])
             rebounds_cv == coefficient_of_variation([i \in 1..n |-> recent_games[i].rebounds])
             assists_cv == coefficient_of_variation([i \in 1..n |-> recent_games[i].assists])
             avg_cv == (points_cv + rebounds_cv + assists_cv) \div 3
         IN max(0, 100000 - avg_cv * 100)

\* PerformanceAnalyzer.calculate_season_consistency
calculate_season_consistency(season_stats, recent_games) ==
    IF Len(recent_games) < 5 THEN 50000
    ELSE LET n == Len(recent_games)
             points_cv == coefficient_of_variation([i \in 1..n |-> recent_games[i].points])
             rebounds_cv == coefficient_of_variation([i \in 1..n |-> recent_games[i].rebounds])
             assists_cv == coefficient_of_variation([i \in 1..n |-> recent_games[i].assists])
             avg_cv == (points_cv + rebounds_cv + assists_cv) \div 3
         IN max(0, 100000 - avg_cv * 100)

\* PerformanceAnalyzer.calculate_clutch_performance; plus_minus is Optional[int]: <<v>>
\* for the value v, <<>> for None
calculate_clutch_performance(recent_games) ==
    LET rated == SelectSeq(recent_games, LAMBDA g : g.plus_minus # <<>>)
        clutch_scores == [i \in 1..Len(rated) |->
                             max(0, min(100000, 50000 + rated[i].plus_minus[1] * 2000))]
    IN IF clutch_scores = <<>> THEN 50000
       ELSE SumSeq(clutch_scores) \div Len(clutch_scores)

\* PerformanceAnalyzer.calculate_breakout_potential
calculate_breakout_potential(player_profile, season_stats) ==
    LET years_pro == Get(player_profile, "years_pro", 5)
        age == IF years_pro <= 2 THEN 20000 ELSE IF years_pro <= 4 THEN 10000
               ELSE IF years_pro >= 10 THEN -10000 ELSE 0
        usage == IF season_stats.usage_rate > 250 THEN 15000
                 ELSE IF season_stats.usage_rate < 150 THEN -10000 ELSE 0
        efficiency == IF season_stats.player_efficiency_rating > 20 THEN 10000
                      ELSE IF season_stats.player_efficiency_rating < 15 THEN -10000 ELSE 0
        minutes == IF season_stats.minutes_per_game > 30 THEN 10000
                   ELSE IF season_stats.minutes_per_game < 20 THEN -15000 ELSE 0
    IN max(0, min(100000, 50000 + age + usage + efficiency + minutes))

\* PerformanceAnalyzer.calculate_veteran_stability
calculate_veteran_stability(player_profile, season_stats) ==
    LET years_pro == Get(player_profile, "years_pro", 5)
        experience == IF years_pro >= 8 THEN 20000 ELSE IF years_pro >= 5 THEN 10000
                      ELSE -10000
        efficiency == IF season_stats.player_efficiency_rating > 18 THEN 15000
                      ELSE IF season_stats.player_efficiency_rating < 12 THEN -15000 ELSE 0
        availability == IF season_stats.games_played > 70 THEN 10000
                        ELSE IF season_stats.games_played < 50 THEN -20000 ELSE 0
    IN max(0, min(100000, 50000 + experience + efficiency + availability))

\* PerformanceAnalyzer.estimate_injury_risk
estimate_injury_risk(player_profile, season_stats, recent_games) ==
    LET years_pro == Get(player_profile, "years_pro", 5)
        age == IF years_pro >= 12 THEN 20000 ELSE IF years_pro >= 8 THEN 10000 ELSE 0
        load == IF season_stats.minutes_per_game > 36 THEN 15000
                ELSE IF season_stats.minutes_per_game > 32 THEN 5000 ELSE 0
        availability == IF season_stats.games_played < 60 THEN 20000
                        ELSE IF season_stats.games_played < 70 THEN 10000 ELSE 0
        position == IF Get(player_profile, "position", "PG") \in {"C", "PF"} THEN 10000 ELSE 0
    IN max(0, min(100000, 20000 + age + load + availability + position))

\* PlayerPerformanceMetrics: every score ge 0 le 100
ScoreFields ==
    {"recent_form_score", "season_consistency", "clutch_performance", "injury_risk",
     "market_momentum", "breakout_potential", "veteran_stability"}

AcceptsPlayerPerformanceMetrics(k) == \A f \in ScoreFields : 0 <= k[f] /\ k[f] <= 100000

\* PerformanceAnalyzer.analyze_player_performance: the scores it computes, and whether
\* PlayerPerformanceMetrics accepts them
analyze_player_performance(player_profile, season_stats, recent_games) ==
    LET scores ==
          [recent_form_score |-> calculate_recent_form_score(recent_games),
           season_consistency |-> calculate_season_consistency(season_stats, recent_games),
           clutch_performance |-> calculate_clutch_performance(recent_games),
           injury_risk |-> estimate_injury_risk(player_profile, season_stats, recent_games),
           market_momentum |-> 50000,
           breakout_potential |-> calculate_breakout_potential(player_profile, season_stats),
           veteran_stability |-> calculate_veteran_stability(player_profile, season_stats)]
    IN [scores |-> scores,
        status |-> IF AcceptsPlayerPerformanceMetrics(scores) THEN "ok" ELSE "raised"]

\* np.mean(values) in thousandths
mean_milli(values) == (SumSeq(values) * 1000) \div Len(values)

\* np.std(values) in thousandths
std_milli(values) ==
    LET n == Len(values)
        total == SumSeq(values)
        squares == SumSeq([i \in 1..n |-> (n * values[i] - total) * (n * values[i] - total)])
    IN (IsqrtWide((squares \div n) * 10000) * 10) \div n

\* PerformanceAnalyzer.predict_next_game_performance; the league average defense is 112,
\* and a zero points average leaves the confidence at its floor (max(0.3, nan) is 0.3)
predict_next_game_performance(season_stats, recent_games, opponent_defense_rating) ==
    IF recent_games = <<>>
    THEN [predicted_points |-> season_stats.points_per_game,
          predicted_rebounds |-> season_stats.rebounds_per_game,
          predicted_assists |-> season_stats.assists_per_game,
          confidence |-> 500]
    ELSE LET last5 == LastN(recent_games, 5)
             last10 == LastN(recent_games, 10)
             recent_points == mean_milli([i \in 1..Len(last5) |-> last5[i].points])
             recent_rebounds == mean_milli([i \in 1..Len(last5) |-> last5[i].rebounds])
             recent_assists == mean_milli([i \in 1..Len(last5) |-> last5[i].assists])
             points_std == std_milli([i \in 1..Len(last10) |-> last10[i].points])
         IN [predicted_points |-> (recent_points * 112) \div opponent_defense_rating,
             predicted_rebounds |-> recent_rebounds,
             predicted_assists |-> (recent_assists * 224) \div opponent_defense_rating,
             confidence |-> IF recent_points = 0 THEN 300
                            ELSE max(300, 1000 - (points_std * 1000) \div recent_points)]

-----------------------------------------------------------------------------
(* The inputs the valuator is called with *)

MaxBatch == 3       \* longest request list handed to batch_analyze_moments
MaxResults == 3     \* longest result list handed to get_undervalued_moments

\* sequences over S of length 0..n
SeqsUpTo(S, n) == UNION {[1..k -> S] : k \in 0..n}

Requests ==
    [moment_id : {"m1"}, player_id : {"p1"},
     moment_type : {"dunk", "game_winner", "rebound"},
     serial_number : {1, 42, 995, 2000},
     current_price : {1, 150}]

Metrics ==
    [recent_form_score : {0, 75, 100}, season_consistency : {0, 68},
     clutch_performance : {0, 82}, breakout_potential : {45}]

PricePoint(p, v) == [price |-> p, volume |-> v]

Markets ==
    { EmptyDict,
      [total_moments_for_player |-> 50, total_circulation |-> 2000,
       price_history |-> [i \in 1..10 |-> PricePoint(162 - 2 * i, 5)],
       comparable_sales |-> <<[price |-> 145], [price |-> 155], [price |-> 148]>>],
      [total_moments_for_player |-> 0, total_circulation |-> 0,
       price_history |-> <<PricePoint(100, 0), PricePoint(300, 10)>>,
       comparable_sales |-> <<[price |-> 1]>>],
      [total_moments_for_player |-> 500, total_circulation |-> 50000,
       price_history |-> [i \in 1..11 |-> PricePoint(IF i = 1 THEN 1 ELSE 400 - 30 * i, 12 - i)],
       comparable_sales |-> <<[price |-> 900], [price |-> 700]>>],
      [price_history |-> <<PricePoint(120, 3)>>] }

Socials ==
    { EmptyDict,
      [mentions |-> 200, sentiment |-> 300, viral_score |-> 65000, influencer_mentions |-> 8],
      [mentions |-> 0, sentiment |-> -1000, viral_score |-> 0, influencer_mentions |-> 0],
      [mentions |-> 1000000, sentiment |-> 1000, viral_score |-> 100000,
       influencer_mentions |-> 20] }

\* the requests of a batch differ in moment and player only
BatchRequests ==
    [moment_id : {"m1", "m2"}, player_id : {"p1", "p2"}, moment_type : {"dunk"},
     serial_number : {42}, current_price : {150}]

SampleMetrics ==
    [recent_form_score |-> 75, season_consistency |-> 68, clutch_performance |-> 82,
     breakout_potential |-> 45]

PerformanceMaps == UNION {[P -> {SampleMetrics}] : P \in SUBSET {"p1", "p2"}}

\* fair_value / current_price pairs for the ratios 0.7 0.8 0.9 0.95 1.0 1.05 1.1 1.2 1.3
\* and their neighbours
RatioPoints ==
    {<<f, 100>> : f \in {70, 80, 81, 90, 95, 96, 100, 105, 106, 110, 120, 121, 130}}
    \cup {<<f, 20>> : f \in {14, 16, 19, 20, 21, 22, 24, 25, 26}}
    \cup {<<f, 1>> : f \in {0, 1, 2}}

MaxGames == 5       \* longest game log handed to the analyzer

GameStat(pts, reb, ast, stl, blk, tov, fgm, fga, ftm, fta, mins, plus_minus) ==
    [points |-> pts, rebounds |-> reb, assists |-> ast, steals |-> stl,
     blocks |-> blk, turnovers |-> tov,
     field_goals_made |-> fgm, field_goals_attempted |-> fga,
     free_throws_made |-> ftm, free_throws_attempted |-> fta,
     minutes_played |-> mins, plus_minus |-> plus_minus]

\* a strong game, a game of missed shots and turnovers, a game not played and without
\* plus/minus, and a game beyond every cap
Games ==
    { GameStat(30, 10, 8, 2, 1, 2, 12, 20, 4, 5, 36, <<10>>),
      GameStat(0, 0, 0, 0, 0, 5, 0, 20, 0, 4, 36, <<-30>>),
      GameStat(0, 0, 0, 0, 0, 0, 0, 0, 0, 0, 0, <<>>),
      GameStat(60, 25, 20, 6, 6, 0, 25, 30, 10, 10, 48, <<40>>) }

Seasons ==
    { [games_played |-> 75, minutes_per_game |-> 37, player_efficiency_rating |-> 25,
       usage_rate |-> 300],
      [games_played |-> 65, minutes_per_game |-> 31, player_efficiency_rating |-> 16,
       usage_rate |-> 200],
      [games_played |-> 40, minutes_per_game |-> 15, player_efficiency_rating |-> 10,
       usage_rate |-> 100] }

Profiles ==
    { [years_pro |-> 1, position |-> "PG"], [years_pro |-> 6, position |-> "SF"],
      [years_pro |-> 12, position |-> "C"] }

AnalysisResults ==
    [moment_id : {"m1"}, confidence_score : {500, 800},
     fair_value : {100, 110, 200}, current_price : {100}]
    \cup [moment_id : {"m2"}, confidence_score : {600}, fair_value : {165, 300},
          current_price : {150}]

-----------------------------------------------------------------------------
(* The valuator's operations *)

NoCall == [op |-> "none"]

Call_analyze_moment ==
    /\ vcall = NoCall
    /\ \E req \in Requests, perf \in Metrics, market \in Markets, social \in Socials :
          vcall' = [op |-> "analyze_moment", req |-> req, perf |-> perf,
                    market |-> market, social |-> social,
                    out |-> MomentValuator_analyze_moment(req, perf, market, social)]
    /\ UNCHANGED <<cache, nba, tasks, batch, pool, db, calls, reads, context, requests, retry>>

Call_batch_analyze_moments ==
    /\ vcall = NoCall
    /\ \E reqs \in SeqsUpTo(BatchRequests, MaxBatch), perfs \in PerformanceMaps,
          market \in {EmptyDict} :
          vcall' = [op |-> "batch_analyze_moments", reqs |-> reqs, perfs |-> perfs,
                    raised |-> FALSE,
                    out |-> batch_analyze_moments(reqs, perfs, market)]
    /\ UNCHANGED <<cache, nba, tasks, batch, pool, db, calls, reads, context, requests, retry>>

\* the valuation arithmetic of analyze_moment alone: the four factors' numbers, the
\* fair value, the recommendation and the price range
Call_valuation ==
    /\ vcall = NoCall
    /\ \E req \in Requests, perf \in Metrics, market \in Markets, social \in Socials :
          vcall' = [op |-> "valuation", req |-> req, perf |-> perf,
                    market |-> market, social |-> social,
                    factors |-> factors_of(req, perf, market, social),
                    out |-> valuation_of(req, factors_of(req, perf, market, social))]
    /\ UNCHANGED <<cache, nba, tasks, batch, pool, db, calls, reads, context, requests, retry>>

Call_recommendation ==
    /\ vcall = NoCall
    /\ \E p \in RatioPoints :
          vcall' = [op |-> "recommendation", fair_value |-> p[1], current_price |-> p[2],
                    out |-> recommendation_of(p[1], p[2])]
    /\ UNCHANGED <<cache, nba, tasks, batch, pool, db, calls, reads, context, requests, retry>>

Call_get_undervalued_moments ==
    /\ vcall = NoCall
    /\ \E results \in SeqsUpTo(AnalysisResults, MaxResults),
          min_confidence \in {0, 600, 800}, min_upside \in {-100, 0, 100} :
          vcall' = [op |-> "get_undervalued_moments", results |-> results,
                    min_confidence |-> min_confidence, min_upside |-> min_upside,
                    out |-> get_undervalued_moments(results, min_confidence, min_upside)]
    /\ UNCHANGED <<cache, nba, tasks, batch, pool, db, calls, reads, context, requests, retry>>

Call_analyze_player_performance ==
    /\ vcall = NoCall
    /\ \E profile \in Profiles, season \in Seasons, games \in SeqsUpTo(Games, MaxGames) :
          vcall' = [op |-> "analyze_player_performance", profile |-> profile,
                    season |-> season, games |-> games,
                    out |-> analyze_player_performance(profile, season, games)]
    /\ UNCHANGED <<cache, nba, tasks, batch, pool, db, calls, reads, context, requests, retry>>

MaxLog == 6         \* longest game log handed to predict_next_game_performance

\* the season averages the prediction falls back on, in thousandths
SeasonAverages ==
    { [points_per_game |-> 25500, rebounds_per_game |-> 7000, assists_per_game |-> 6200] }

Call_predict_next_game_performance ==
    /\ vcall = NoCall
    /\ \E season \in SeasonAverages, games \in SeqsUpTo(Games, MaxLog),
          opponent_defense_rating \in {110, 112} :
          vcall' = [op |-> "predict_next_game_performance", season |-> season,
                    games |-> games, opponent_defense_rating |-> opponent_defense_rating,
                    out |-> predict_next_game_performance(season, games,
                                                          opponent_defense_rating)]
    /\ UNCHANGED <<cache, nba, tasks, batch, pool, db, calls, reads, context, requests, retry>>

\* the serial numbers calculate_scarcity_factor is compared on
Serials == {1, 42, 999, 1000, 2000}

\* calculate_scarcity_factor on two requests that differ only in serial number
Call_calculate_scarcity_factor ==
    /\ vcall = NoCall
    /\ \E req \in Requests, lower \in Serials, higher \in Serials,
          total_moments_for_player \in {50}, total_circulation \in {1000, 2000} :
          /\ lower < higher
          /\ req.serial_number = 1
          /\ vcall' = [op |-> "calculate_scarcity_factor",
                       req |-> req, lower |-> lower, higher |-> higher,
                       out_lower |-> calculate_scarcity_factor(
                                         [req EXCEPT !.serial_number = lower],
                                         total_moments_for_player, total_circulation),
                       out_higher |-> calculate_scarcity_factor(
                                          [req EXCEPT !.serial_number = higher],
                                          total_moments_for_player, total_circulation)]
    /\ UNCHANGED <<cache, nba, tasks, batch, pool, db, calls, reads, context, requests, retry>>

\* the service, the statistics client and the store before anything has run
NoCache == [k \in {} |-> "absent"]
NoSession == [session |-> 0, open |-> {}, created |-> 0, cache |-> [k \in {} |-> "data"]]
NoBatch == [state |-> "idle"]
NoStore == [parents |-> <<>>, factors |-> <<>>, contexts |-> {}]
NoRead == [pc |-> "none"]
NoContext == [k \in {} |-> ""]
NoRetry == [pc |-> "none"]

InitValuator ==
    /\ vcall = NoCall
    /\ cache = NoCache
    /\ nba = NoSession
    /\ tasks = <<>>
    /\ batch = NoBatch
    /\ pool = FALSE
    /\ db = NoStore
    /\ calls = <<>>
    /\ reads = NoRead
    /\ context = NoContext
    /\ requests = <<>>
    /\ retry = NoRetry

NextValuator ==
    \/ Call_analyze_moment
    \/ Call_batch_analyze_moments
    \/ Call_valuation
    \/ Call_recommendation
    \/ Call_get_undervalued_moments
    \/ Call_analyze_player_performance
    \/ Call_calculate_scarcity_factor
    \/ Call_predict_next_game_performance

SpecValuator == InitValuator /\ [][NextValuator]_vars

-----------------------------------------------------------------------------
(* Properties of the valuator *)

\* the moment ids of the requests whose player has an entry in the map, in input order
RECURSIVE ids_with_performance(_, _)
ids_with_performance(reqs, perfs) ==
    IF reqs = <<>> THEN <<>>
    ELSE (IF Head(reqs).player_id \in DOMAIN perfs THEN <<Head(reqs).moment_id>> ELSE <<>>)
         \o ids_with_performance(Tail(reqs), perfs)

FourFactors == <<"player_performance", "scarcity", "market_trend", "social_sentiment">>

Labels == {"Strong Buy", "Buy", "Hold", "Sell", "Strong Sell"}

C3_AnalyzeMomentReturnsFourFactors ==
    vcall.op = "analyze_moment" =>
        /\ vcall.out.status = "ok"
        /\ vcall.out.moment_id = vcall.req.moment_id
        /\ vcall.out.factors = FourFactors

C15_SubScoresInRange ==
    vcall.op = "analyze_player_performance" =>
        \A f \in ScoreFields \ {"market_momentum"} :
            0 <= vcall.out.scores[f] /\ vcall.out.scores[f] <= 100000

\* no game of the list carries a plus/minus value
NoPlusMinus(games) == \A i \in 1..Len(games) : games[i].plus_minus = <<>>

\* C16: each missing-input case yields its neutral value and no error: the recent form
\* of an empty game list is 50.0, the season consistency of fewer than 5 games is 50.0,
\* the clutch performance without any plus/minus value is 50.0, the market trend factor
\* of an empty price history has value 0.5 and impact 0 (momentum, volume trend and
\* sentiment 0), and the social factor without social data uses mentions 100,
\* sentiment 0.1, viral score 30 and influencer mentions 5.
C16_NeutralValuesForMissingInputs ==
    /\ vcall.op = "analyze_player_performance" =>
          /\ vcall.games = <<>> => vcall.out.scores.recent_form_score = 50000
          /\ Len(vcall.games) < 5 => vcall.out.scores.season_consistency = 50000
          /\ NoPlusMinus(vcall.games) => vcall.out.scores.clutch_performance = 50000
          /\ vcall.games = <<>> => vcall.out.status = "ok"
    /\ vcall.op = "valuation" =>
          /\ Get(vcall.market, "price_history", <<>>) = <<>> =>
                /\ vcall.factors[3].value = 500
                /\ vcall.factors[3].impact = 0
                /\ vcall.factors[3].price_momentum = 0
                /\ vcall.factors[3].volume_trend = 0
                /\ vcall.factors[3].market_sentiment = 0
                /\ AcceptsMarketTrendFactor(vcall.factors[3])
          /\ vcall.social = EmptyDict =>
                /\ vcall.factors[4].social_mentions = 100
                /\ vcall.factors[4].sentiment_score = 100
                /\ vcall.factors[4].viral_potential = 30000
                /\ vcall.factors[4].influencer_mentions = 5
                /\ AcceptsSocialSentimentFactor(vcall.factors[4])

\* four games without a plus/minus value: too few for a consistency and nothing to rate
\* the clutch performance on, so both are neutral, while the recent form is computed
C16_Witness ==
    /\ vcall.op = "analyze_player_performance"
    /\ Len(vcall.games) = 4
    /\ NoPlusMinus(vcall.games)
    /\ vcall.out.scores.season_consistency = 50000
    /\ vcall.out.scores.clutch_performance = 50000
    /\ vcall.out.scores.recent_form_score # 50000
    /\ vcall.out.status = "ok"

\* C22: in calculate_scarcity_factor, of two requests that differ only in serial number
\* the one with the lower serial number gets a strictly greater serial_number_rarity,
\* and a request of moment type game_winner gets moment_type_rarity >= 90.
C22_LowerSerialIsRarer ==
    vcall.op = "calculate_scarcity_factor" =>
        /\ vcall.out_lower.serial_number_rarity > vcall.out_higher.serial_number_rarity
        /\ vcall.req.moment_type = "game_winner" =>
              /\ vcall.out_lower.moment_type_rarity >= 90000
              /\ vcall.out_higher.moment_type_rarity >= 90000

\* the first n entries of a list
FirstN(seq, n) == SubSeq(seq, 1, min(n, Len(seq)))

\* C23: given a non-empty game list ordered most-recent-first,
\* predict_next_game_performance bases its points, rebounds and assists projections on
\* the averages of the five most recent games of that list (all games when there are
\* fewer than five), whatever the length of the list.
C23_PredictionFromFiveMostRecent ==
    (vcall.op = "predict_next_game_performance" /\ vcall.games # <<>>) =>
        LET recent == FirstN(vcall.games, 5)
            points == mean_milli([i \in 1..Len(recent) |-> recent[i].points])
            rebounds == mean_milli([i \in 1..Len(recent) |-> recent[i].rebounds])
            assists == mean_milli([i \in 1..Len(recent) |-> recent[i].assists])
        IN /\ vcall.out.predicted_points = (points * 112) \div vcall.opponent_defense_rating
           /\ vcall.out.predicted_rebounds = rebounds
           /\ vcall.out.predicted_assists = (assists * 224) \div vcall.opponent_defense_rating

\* C5: the recommendation is a total function of r = fair_value / current_price:
\* r > 1.2 Strong Buy; 1.05 < r <= 1.2 Buy; 0.95 < r <= 1.05 Hold; 0.8 < r <= 0.95 Sell;
\* r <= 0.8 Strong Sell.
C5_RecommendationTable ==
    vcall.op = "recommendation" =>
        LET f == vcall.fair_value * 100
            p == vcall.current_price
        IN /\ (f > p * 120) => vcall.out = "Strong Buy"
           /\ (p * 105 < f /\ f <= p * 120) => vcall.out = "Buy"
           /\ (p * 95 < f /\ f <= p * 105) => vcall.out = "Hold"
           /\ (p * 80 < f /\ f <= p * 95) => vcall.out = "Sell"
           /\ (f <= p * 80) => vcall.out = "Strong Sell"

\* the ratio is exactly 1.2, the upper end of the Buy interval
C5_Witness ==
    /\ vcall.op = "recommendation"
    /\ vcall.fair_value * 100 = vcall.current_price * 120
    /\ vcall.out = "Buy"

\* C6: get_undervalued_moments returns only input entries whose confidence is at least
\* min_confidence and whose fair_value / current_price exceeds 1 + min_upside, ordered by
\* non-increasing ratio.
C6_UndervaluedFilteredAndSorted ==
    vcall.op = "get_undervalued_moments" =>
        /\ \A i \in 1..Len(vcall.out) :
              /\ \E j \in 1..Len(vcall.results) : vcall.results[j] = vcall.out[i]
              /\ vcall.out[i].confidence_score >= vcall.min_confidence
              /\ vcall.out[i].fair_value * 1000
                     > vcall.out[i].current_price * (1000 + vcall.min_upside)
        /\ \A i \in 1..(Len(vcall.out) - 1) :
              vcall.out[i].fair_value * vcall.out[i + 1].current_price
                  >= vcall.out[i + 1].fair_value * vcall.out[i].current_price

\* an entry was dropped for its confidence, and two kept entries were reordered
C6_Witness ==
    /\ vcall.op = "get_undervalued_moments"
    /\ Len(vcall.results) = 3
    /\ Len(vcall.out) = 2
    /\ vcall.out[1] = vcall.results[3]
    /\ vcall.out[2] = vcall.results[1]
    /\ vcall.results[2].confidence_score < vcall.min_confidence
    /\ vcall.results[2].fair_value * 1000
           > vcall.results[2].current_price * (1000 + vcall.min_upside)

-----------------------------------------------------------------------------
(* src/services/ai_service.py: AIScoutingService over the Redis cache and the shared
   NBAStatsClient.  A task is one analyze_moment coroutine; each action below runs a
   task from one suspension point (an await on the cache or on the provider) to the
   next.  Where the code would not suspend (a provider response served from the
   client's own cache) the model still ends the step: it allows more interleavings
   than the event loop, never fewer. *)

MaxTasks == 2       \* longest request list handed to AIScoutingService.batch_analyze_moments

ServiceRequests ==
    [moment_id : {"m1", "m2"}, player_id : {"p1"}, moment_type : {"dunk"},
     serial_number : {42}, current_price : {150}]

\* f"moment_analysis:{moment_id}" and f"player_performance:{player_id}"
analysis_key(moment_request) == <<"moment_analysis", moment_request.moment_id>>
performance_key(player_id) == <<"player_performance", player_id>>

CacheKeys == {<<"moment_analysis", "m1">>, <<"moment_analysis", "m2">>,
              <<"player_performance", "p1">>}

\* what Redis holds under a key: nothing, a blob the record's constructor accepts, or a
\* blob it rejects
Blobs == {"absent", "valid", "invalid"}

\* _get_cached_data: the parsed blob, or None on a miss and on any exception
get_cached_data(key, redis_ok) ==
    IF redis_ok /\ cache[key] # "absent" THEN cache[key] ELSE "None"

\* _set_cached_data: the cache after setex, unchanged on any exception
set_cached_data(key, redis_ok) ==
    IF redis_ok THEN [cache EXCEPT ![key] = "valid"] ELSE cache

\* _get_market_data and _get_social_sentiment_data: the placeholder payloads
service_market_data ==
    [total_moments_for_player |-> 75, total_circulation |-> 2500,
     price_history |-> [i \in 1..10 |-> PricePoint(155 - 5 * i, 10)],
     comparable_sales |-> <<[price |-> 95], [price |-> 105], [price |-> 98]>>]

service_social_data ==
    [mentions |-> 150, sentiment |-> 200, viral_score |-> 45000, influencer_mentions |-> 3]

AnalysisResult(moment_id) == [kind |-> "result", moment_id |-> moment_id]
NoneResult == [kind |-> "None", moment_id |-> ""]
RaisedResult == [kind |-> "raised", moment_id |-> ""]
Pending == [kind |-> "pending", moment_id |-> ""]

NewTask(moment_request) ==
    [req |-> moment_request, pc |-> "cache_get", sess |-> 0,
     player_info |-> FALSE, season_stats |-> FALSE,
     analysis_read |-> "none", metrics_read |-> "none", metrics_write |-> "none",
     metrics |-> "none", analyzed |-> FALSE, valued |-> FALSE, reasoned |-> FALSE,
     result |-> Pending]

\* NBAStatsClient.__aenter__: a new session replaces self.session
aenter(client) ==
    [client EXCEPT !.session = client.created + 1,
                   !.open = client.open \cup {client.created + 1},
                   !.created = client.created + 1]

\* NBAStatsClient.__aexit__: closes whatever self.session is now
aexit(client) == [client EXCEPT !.open = client.open \ {client.session}]

\* NBAStatsClient._make_request under its retry: a cached response is returned as is;
\* otherwise the request needs a session that is still open, the one the request went
\* out on or the one a retry finds in self.session; a failure is swallowed by the
\* get_player_* method, which then returns None or []
make_request(client, sess, key, kinds) ==
    IF key \in DOMAIN client.cache THEN {client.cache[key]}
    ELSE IF sess \in client.open \/ client.session \in client.open
         THEN kinds \cup {"error"}
         ELSE {"error"}

\* self.cache[cache_key] = data after a response
remember(client, key, response) ==
    IF response = "error" \/ key \in DOMAIN client.cache THEN client
    ELSE [client EXCEPT !.cache = [k \in DOMAIN client.cache \cup {key} |->
                                      IF k = key THEN response ELSE client.cache[k]]]

\* analyze_moment from the metrics on: market and social data, the valuator, then the
\* reasoning record and the cache write; any exception makes it return None.  The
\* metrics handed over are valid PlayerPerformanceMetrics, whatever their numbers
finish_analysis(t) ==
    LET r == MomentValuator_analyze_moment(t.req, SampleMetrics, service_market_data,
                                           service_social_data)
    IN IF r.status = "ok" THEN AnalysisResult(r.moment_id) ELSE NoneResult

\* a test that lets a lone profile or a lone season through
incomplete_data_none_of(player_info, season_stats) == ~player_info /\ ~season_stats

\* get_player_performance_metrics, line 110: not all([player_info, season_stats])
incomplete_data(player_info, season_stats) == ~(player_info /\ season_stats)

\* a filter that drops the exceptions only
RECURSIVE valid_results_keep_none(_)
valid_results_keep_none(results) ==
    IF results = <<>> THEN <<>>
    ELSE (IF Head(results).kind # "raised" THEN <<Head(results)>> ELSE <<>>)
         \o valid_results_keep_none(Tail(results))

\* batch_analyze_moments' filter over what gather returned
RECURSIVE valid_results(_)
valid_results(results) ==
    IF results = <<>> THEN <<>>
    ELSE (IF Head(results).kind = "result" THEN <<Head(results)>> ELSE <<>>)
         \o valid_results(Tail(results))

\* the task's own fields after one step, all other tasks untouched
Step(i, t) == tasks' = [tasks EXCEPT ![i] = t]

\* batch_analyze_moments creates one analyze_moment coroutine per request and awaits
\* gather over them
Batch_start ==
    /\ batch = NoBatch
    /\ \E reqs \in SeqsUpTo(ServiceRequests, MaxTasks) :
          tasks' = [i \in 1..Len(reqs) |-> NewTask(reqs[i])]
    /\ batch' = [state |-> "running"]
    /\ UNCHANGED <<vcall, cache, nba, pool, db, calls, reads, context, requests, retry>>

\* analyze_moment, lines 135-144: the cache read returns; a hit is rebuilt into a
\* MomentAnalysisResult outside the try block, a miss goes on to the metrics' cache read
Task_cache_get ==
    \E i \in 1..Len(tasks) :
       /\ tasks[i].pc = "cache_get"
       /\ \E redis_ok \in BOOLEAN :
             LET t == tasks[i]
                 cached == get_cached_data(analysis_key(t.req), redis_ok)
                 read == IF ~redis_ok THEN "error" ELSE IF cached = "None" THEN "miss" ELSE "hit"
             IN Step(i, IF cached = "valid"
                          THEN [t EXCEPT !.pc = "done", !.analysis_read = read,
                                         !.result = AnalysisResult(t.req.moment_id)]
                        ELSE IF cached = "invalid"
                          THEN [t EXCEPT !.pc = "done", !.analysis_read = read,
                                         !.result = RaisedResult]
                        ELSE [t EXCEPT !.pc = "metrics_cache_get", !.analysis_read = read])
       /\ UNCHANGED <<vcall, cache, nba, batch, pool, db, calls, reads, context, requests, retry>>

\* get_player_performance_metrics, lines 96-106: the cache read returns; a hit is rebuilt
\* into PlayerPerformanceMetrics and analyze_moment runs on to its end; a miss enters
\* the statistics client and sends the first request
Task_metrics_cache_get ==
    \E i \in 1..Len(tasks) :
       /\ tasks[i].pc = "metrics_cache_get"
       /\ \E redis_ok \in BOOLEAN :
             LET t == tasks[i]
                 cached == get_cached_data(performance_key(t.req.player_id), redis_ok)
                 read == IF ~redis_ok THEN "error" ELSE IF cached = "None" THEN "miss" ELSE "hit"
                 result == finish_analysis(t)
             IN IF cached = "valid" THEN
                    /\ Step(i, [t EXCEPT !.pc = "done", !.metrics_read = read,
                                         !.metrics = "cached", !.valued = TRUE,
                                         !.reasoned = (result.kind = "result"),
                                         !.result = result])
                    /\ cache' = IF result.kind = "result"
                                THEN set_cached_data(analysis_key(t.req), TRUE) ELSE cache
                    /\ nba' = nba
                ELSE IF cached = "invalid" THEN
                    /\ Step(i, [t EXCEPT !.pc = "done", !.metrics_read = read,
                                         !.result = NoneResult])
                    /\ UNCHANGED <<cache, nba, context, requests, retry>>
                ELSE
                    /\ Step(i, [t EXCEPT !.pc = "player_info", !.metrics_read = read,
                                         !.sess = aenter(nba).session])
                    /\ nba' = aenter(nba)
                    /\ cache' = cache
       /\ UNCHANGED <<vcall, batch, pool, db, calls, reads, context, requests, retry>>

\* lines 106-107: get_player_info returns, None for a response without rows and for a
\* failed request, and get_player_season_stats is sent
Task_player_info ==
    \E i \in 1..Len(tasks) :
       /\ tasks[i].pc = "player_info"
       /\ LET t == tasks[i]
              key == <<"commonplayerinfo", t.req.player_id>>
          IN \E response \in make_request(nba, t.sess, key, {"rows", "empty"}) :
                /\ nba' = remember(nba, key, response)
                /\ Step(i, [t EXCEPT !.pc = "season_stats", !.sess = nba.session,
                                     !.player_info = (response = "rows")])
       /\ UNCHANGED <<vcall, cache, batch, pool, db, calls, reads, context, requests, retry>>

\* lines 107-108: get_player_season_stats returns, None for a response without rows and
\* for a failed request, and get_player_game_log is sent
Task_season_stats ==
    \E i \in 1..Len(tasks) :
       /\ tasks[i].pc = "season_stats"
       /\ LET t == tasks[i]
              key == <<"playerdashboardbyyearoveryear", t.req.player_id>>
          IN \E response \in make_request(nba, t.sess, key, {"rows", "empty"}) :
                /\ nba' = remember(nba, key, response)
                /\ Step(i, [t EXCEPT !.pc = "game_log", !.sess = nba.session,
                                     !.season_stats = (response = "rows")])
       /\ UNCHANGED <<vcall, cache, batch, pool, db, calls, reads, context, requests, retry>>

\* lines 108-125: get_player_game_log returns; with incomplete data, or with an analyzer
\* that raises on a negative recent form, the block is left and __aexit__ closes the
\* session; otherwise the metrics are computed and the cache write is sent
Task_game_log ==
    \E i \in 1..Len(tasks) :
       /\ tasks[i].pc = "game_log"
       /\ LET t == tasks[i]
              key == <<"playergamelog", t.req.player_id>>
          IN \E response \in make_request(nba, t.sess, key, {"rows", "poor"}) :
                IF incomplete_data(t.player_info, t.season_stats)
                THEN /\ nba' = aexit(remember(nba, key, response))
                     /\ Step(i, [t EXCEPT !.pc = "aexit"])
                ELSE IF response = "poor"
                THEN /\ nba' = aexit(remember(nba, key, response))
                     /\ Step(i, [t EXCEPT !.pc = "aexit", !.analyzed = TRUE])
                ELSE /\ nba' = remember(nba, key, response)
                     /\ Step(i, [t EXCEPT !.pc = "metrics_cache_set", !.analyzed = TRUE,
                                          !.metrics = "computed"])
       /\ UNCHANGED <<vcall, cache, batch, pool, db, calls, reads, context, requests, retry>>

\* lines 121-127: the cache write returns, the metrics are returned and __aexit__ closes
\* the session
Task_metrics_cache_set ==
    \E i \in 1..Len(tasks) :
       /\ tasks[i].pc = "metrics_cache_set"
       /\ \E redis_ok \in BOOLEAN :
             /\ cache' = set_cached_data(performance_key(tasks[i].req.player_id), redis_ok)
             /\ Step(i, [tasks[i] EXCEPT !.pc = "aexit",
                                         !.metrics_write = IF redis_ok THEN "ok" ELSE "error"])
       /\ nba' = aexit(nba)
       /\ UNCHANGED <<vcall, batch, pool, db, calls, reads, context, requests, retry>>

\* the close of the session returns; without metrics analyze_moment returns None
\* (lines 145-147), with metrics it runs on to its end (lines 149-185)
Task_aexit ==
    \E i \in 1..Len(tasks) :
       /\ tasks[i].pc = "aexit"
       /\ LET t == tasks[i]
              result == IF t.metrics = "none" THEN NoneResult ELSE finish_analysis(t)
          IN /\ Step(i, [t EXCEPT !.pc = "done", !.valued = (t.metrics # "none"),
                                  !.reasoned = (result.kind = "result"),
                                  !.result = result])
             /\ cache' = IF result.kind = "result"
                         THEN set_cached_data(analysis_key(t.req), TRUE) ELSE cache
       /\ UNCHANGED <<vcall, nba, batch, pool, db, calls, reads, context, requests, retry>>

\* gather(return_exceptions=True) returns once every task has ended; lines 192-200
Batch_gather ==
    /\ batch = [state |-> "running"]
    /\ \A i \in 1..Len(tasks) : tasks[i].pc = "done"
    /\ batch' = [state |-> "done", raised |-> FALSE,
                 out |-> valid_results([i \in 1..Len(tasks) |-> tasks[i].result])]
    /\ UNCHANGED <<vcall, cache, nba, tasks, pool, db, calls, reads, context, requests, retry>>

\* Redis outlives the service: what it holds under each key when the batch starts is
\* whatever an earlier run left there
InitService ==
    /\ vcall = NoCall
    /\ cache \in [CacheKeys -> Blobs]
    /\ nba = NoSession
    /\ tasks = <<>>
    /\ batch = NoBatch
    /\ pool = FALSE
    /\ db = NoStore
    /\ calls = <<>>
    /\ reads = NoRead
    /\ context = NoContext
    /\ requests = <<>>
    /\ retry = NoRetry

NextService ==
    \/ Batch_start
    \/ Task_cache_get
    \/ Task_metrics_cache_get
    \/ Task_player_info
    \/ Task_season_stats
    \/ Task_game_log
    \/ Task_metrics_cache_set
    \/ Task_aexit
    \/ Batch_gather

SpecService == InitService /\ [][NextService]_vars

-----------------------------------------------------------------------------
(* Properties of the service *)

\* the tasks that ended with a MomentAnalysisResult
Succeeded == {i \in 1..Len(tasks) : tasks[i].result.kind = "result"}

\* the k-th of them in input order
KthSucceeded(k) == CHOOSE i \in Succeeded : Cardinality({j \in Succeeded : j < i}) = k - 1

\* C2: batch_analyze_moments awaits one analyze_moment task per request; a task that
\* returns no result or raises is left out and neither cancels nor fails a sibling, the
\* call never raises, and the output is exactly the results of the tasks that succeeded,
\* in input order.
C2_BatchIsolatesFailures ==
    /\ \A i \in 1..Len(tasks) :
          (tasks[i].pc = "done" /\ tasks[i].analysis_read = "hit"
              /\ cache[analysis_key(tasks[i].req)] = "valid")
          => tasks[i].result = AnalysisResult(tasks[i].req.moment_id)
    /\ batch.state = "done" =>
          /\ ~batch.raised
          /\ \A i \in 1..Len(tasks) : tasks[i].pc = "done" /\ tasks[i].result # Pending
          /\ Len(batch.out) = Cardinality(Succeeded)
          /\ \A k \in 1..Len(batch.out) :
                batch.out[k] = AnalysisResult(tasks[KthSucceeded(k)].req.moment_id)

\* a batch of two: the first task went to the provider and returned None, the second
\* returned its result, and the output is that one result
C2_Witness ==
    /\ batch.state = "done"
    /\ Len(tasks) = 2
    /\ tasks[1].result = NoneResult
    /\ tasks[1].metrics = "computed"
    /\ tasks[2].result.kind = "result"
    /\ batch.out = <<AnalysisResult(tasks[2].req.moment_id)>>

\* C12: on a cache miss, when the statistics provider returns no player profile or no
\* season statistics, get_player_performance_metrics returns no metrics without calling
\* the analyzer, and analyze_moment for a moment of that player returns no result and
\* calls neither the valuator nor the reasoning store.
C12_AbsentProfileOrSeasonMeansNoAnalysis ==
    \A i \in 1..Len(tasks) :
        (tasks[i].pc = "done" /\ tasks[i].metrics_read \in {"miss", "error"}
            /\ ~(tasks[i].player_info /\ tasks[i].season_stats))
        => /\ tasks[i].metrics = "none"
           /\ ~tasks[i].analyzed
           /\ tasks[i].result = NoneResult
           /\ ~tasks[i].valued
           /\ ~tasks[i].reasoned

\* both caches missed, the provider had a profile but no season statistics, and the
\* task returned None
C12_Witness ==
    \E i \in 1..Len(tasks) :
        /\ tasks[i].pc = "done"
        /\ tasks[i].analysis_read = "miss"
        /\ tasks[i].metrics_read = "miss"
        /\ tasks[i].player_info
        /\ ~tasks[i].season_stats
        /\ <<"playerdashboardbyyearoveryear", tasks[i].req.player_id>> \in DOMAIN nba.cache
        /\ nba.cache[<<"playerdashboardbyyearoveryear", tasks[i].req.player_id>>] = "empty"
        /\ tasks[i].result = NoneResult

\* C25: when batch analysis runs several analyze_moment tasks concurrently over the one
\* shared statistics client, no task's exit from its `async with nba_client` block
\* closes or replaces the HTTP session that a sibling task inside its own block is still
\* using, and every session opened by an entry is closed by the end of the batch.
C25_SessionNotSharedAcrossTasks ==
    /\ \A i \in 1..Len(tasks) :
          tasks[i].pc \in {"player_info", "season_stats", "game_log"}
              => tasks[i].sess \in nba.open
    /\ batch.state = "done" => nba.open = {}

\* C10: in get_player_performance_metrics and analyze_moment a cache miss, a cache read
\* that raises or a cache write that raises never makes the operation fail: the value is
\* recomputed from the provider and returned.
C10_CacheFailureNeverFailsOperation ==
    \A i \in 1..Len(tasks) :
        tasks[i].pc = "done" =>
            /\ (tasks[i].metrics_read \in {"miss", "error"}
                    /\ tasks[i].player_info /\ tasks[i].season_stats
                    /\ tasks[i].metrics_write \in {"ok", "error"})
               => tasks[i].metrics = "computed"
            /\ (tasks[i].analysis_read \in {"miss", "error"} /\ tasks[i].metrics # "none")
               => tasks[i].result.kind = "result"

-----------------------------------------------------------------------------
(* src/services/reasoning_service.py over src/data_sources/database_client.py:
   store_reasoning and get_reasoning_by_moment.  The store keeps the parent rows in the
   order they were inserted, each with the created_at the store gave it (the INSERT
   does not set it), the factor rows, and the ids that have a context row.  Weights are hundredths, confidence thousandths. *)

MaxCalls == 2       \* store_reasoning calls in one behaviour

Factor(name, weight) == [name |-> name, weight |-> weight]

\* the AIReasoningResult records handed to store_reasoning: two analyses of one moment
\* that differ in everything else
StoreResults ==
    { [moment_id |-> "m1", decision |-> "buy", confidence_score |-> 850,
       factors |-> <<Factor("scarcity", 25), Factor("player_performance", 35)>>],
      [moment_id |-> "m1", decision |-> "skip", confidence_score |-> 300,
       factors |-> <<>>] }

\* DatabaseClient.execute: without a pool it logs and returns; with one the statement
\* runs or raises
execute(has_pool) == IF has_pool THEN {"ok", "failed"} ELSE {"noop"}

\* DatabaseClient.fetch_all: without a pool it returns []; with one the query runs or
\* raises
fetch_all(has_pool) == IF has_pool THEN {"ok", "failed"} ELSE {"empty"}

\* the statement store_reasoning sends at pc, factor k
statement(call) ==
    IF call.pc = "parent" THEN [table |-> "ai_reasoning", reasoning_id |-> call.id, name |-> ""]
    ELSE IF call.pc = "factor"
         THEN [table |-> "reasoning_factors", reasoning_id |-> call.id,
               name |-> call.result.factors[call.k].name]
    ELSE [table |-> "reasoning_context", reasoning_id |-> call.id, name |-> ""]

\* the store after the statement ran
insert(store, call) ==
    IF call.pc = "parent"
    THEN [store EXCEPT !.parents = Append(@, [id |-> call.id,
                                               created_at |-> Len(store.parents) + 1,
                                               moment_id |-> call.result.moment_id,
                                               decision |-> call.result.decision,
                                               confidence_score |-> call.result.confidence_score])]
    ELSE IF call.pc = "factor"
    THEN [store EXCEPT !.factors = Append(@, [reasoning_id |-> call.id,
                                               name |-> call.result.factors[call.k].name,
                                               weight |-> call.result.factors[call.k].weight])]
    ELSE [store EXCEPT !.contexts = @ \cup {call.id}]

\* a store_reasoning that returns after the last factor row
after_execute_no_context(call, outcome) ==
    LET n == Len(call.result.factors)
        sent == [call EXCEPT !.writes = Append(@, statement(call) @@ [outcome |-> outcome])]
    IN IF outcome = "failed" THEN [sent EXCEPT !.pc = "raised"]
       ELSE IF call.pc = "parent"
            THEN [sent EXCEPT !.pc = IF n >= 1 THEN "factor" ELSE "returned",
                              !.returned = IF n >= 1 THEN 0 ELSE call.id]
       ELSE [sent EXCEPT !.pc = IF call.k < n THEN "factor" ELSE "returned", !.k = call.k + 1,
                         !.returned = IF call.k < n THEN 0 ELSE call.id]

\* a store_reasoning that logs a failed write and goes on
after_execute_swallow(call, outcome) ==
    LET n == Len(call.result.factors)
        sent == [call EXCEPT !.writes = Append(@, statement(call) @@ [outcome |-> outcome])]
    IN IF call.pc = "parent"
       THEN [sent EXCEPT !.pc = IF n >= 1 THEN "factor" ELSE "context"]
       ELSE IF call.pc = "factor"
       THEN [sent EXCEPT !.pc = IF call.k < n THEN "factor" ELSE "context", !.k = call.k + 1]
       ELSE [sent EXCEPT !.pc = "returned", !.returned = call.id]

\* store_reasoning after one db.execute: the statement is on record as sent; a failure
\* is logged and re-raised, otherwise the next statement is the next factor row, then
\* the context row, then the id is returned
after_execute(call, outcome) ==
    LET n == Len(call.result.factors)
        sent == [call EXCEPT !.writes = Append(@, statement(call) @@ [outcome |-> outcome])]
    IN IF outcome = "failed" THEN [sent EXCEPT !.pc = "raised"]
       ELSE IF call.pc = "parent"
            THEN [sent EXCEPT !.pc = IF n >= 1 THEN "factor" ELSE "context"]
       ELSE IF call.pc = "factor"
            THEN [sent EXCEPT !.pc = IF call.k < n THEN "factor" ELSE "context", !.k = call.k + 1]
       ELSE [sent EXCEPT !.pc = "returned", !.returned = call.id]

\* the query with its ORDER BY ascending
rows_for_oldest_first(store, moment_id, limit) ==
    LET matching == SelectSeq(store.parents, LAMBDA p : p.moment_id = moment_id)
        n == Len(matching)
    IN [i \in 1..min(limit, n) |->
           [id |-> matching[i].id,
            created_at |-> matching[i].created_at,
            moment_id |-> matching[i].moment_id,
            decision |-> matching[i].decision,
            confidence_score |-> matching[i].confidence_score,
            has_context |-> matching[i].id \in store.contexts]]

\* the rows of get_reasoning_by_moment's query: the moment's parent rows, newest first,
\* at most limit of them, each LEFT JOINed with its context row
rows_for(store, moment_id, limit) ==
    LET matching == SelectSeq(store.parents, LAMBDA p : p.moment_id = moment_id)
        n == Len(matching)
    IN [i \in 1..min(limit, n) |->
           [id |-> matching[n + 1 - i].id,
            created_at |-> matching[n + 1 - i].created_at,
            moment_id |-> matching[n + 1 - i].moment_id,
            decision |-> matching[n + 1 - i].decision,
            confidence_score |-> matching[n + 1 - i].confidence_score,
            has_context |-> matching[n + 1 - i].id \in store.contexts]]

\* the results of _get_reasoning_factors' query: the record's factor rows ORDER BY
\* weight DESC, rows of equal weight in any order
factor_rows(store, reasoning_id) ==
    LET idx == {i \in 1..Len(store.factors) : store.factors[i].reasoning_id = reasoning_id}
        n == Cardinality(idx)
        orders == {f \in [1..n -> idx] :
                      /\ \A a, b \in 1..n : a # b => f[a] # f[b]
                      /\ \A a \in 1..(n - 1) :
                            store.factors[f[a]].weight >= store.factors[f[a + 1]].weight}
    IN {[k \in 1..n |-> Factor(store.factors[f[k]].name, store.factors[f[k]].weight)] :
           f \in orders}

\* the AIReasoningResult get_reasoning_by_moment builds from a row and its factors
reasoning_of(row, factors) ==
    [moment_id |-> row.moment_id, decision |-> row.decision,
     confidence_score |-> row.confidence_score, factors |-> factors,
     timestamp |-> row.created_at]

\* store_reasoning is called: a fresh uuid4, and the parent INSERT is sent
Store_call ==
    /\ Len(calls) < MaxCalls
    /\ \E r \in StoreResults :
          calls' = Append(calls, [result |-> r, id |-> Len(calls) + 1, pc |-> "parent",
                                  k |-> 1, writes |-> <<>>, returned |-> 0])
    /\ UNCHANGED <<vcall, cache, nba, tasks, batch, pool, db, reads, context, requests, retry>>

\* one db.execute of a store_reasoning call returns
Execute(c, at) ==
    /\ calls[c].pc = at
    /\ \E outcome \in execute(pool) :
          /\ db' = IF outcome = "ok" THEN insert(db, calls[c]) ELSE db
          /\ calls' = [calls EXCEPT ![c] = after_execute(calls[c], outcome)]
    /\ UNCHANGED <<vcall, cache, nba, tasks, batch, pool, reads, context, requests, retry>>

\* lines 418-439: the parent INSERT
Store_parent == \E c \in 1..Len(calls) : Execute(c, "parent")

\* lines 442-461: one factor INSERT
Store_factor == \E c \in 1..Len(calls) : Execute(c, "factor")

\* lines 464-478: the context INSERT, after which the id is returned
Store_context == \E c \in 1..Len(calls) : Execute(c, "context")

\* get_reasoning_by_moment is called and its query is sent
Get_call ==
    /\ reads = NoRead
    /\ \E moment_id \in {"m1", "m2"}, limit \in {1, 2} :
          reads' = [pc |-> "fetch_rows", moment_id |-> moment_id, limit |-> limit,
                    after |-> {c \in 1..Len(calls) : calls[c].pc = "returned"},
                    rows |-> <<>>, k |-> 1, out |-> <<>>, failed |-> FALSE,
                    raised |-> FALSE]
    /\ UNCHANGED <<vcall, cache, nba, tasks, batch, pool, db, calls, context, requests, retry>>

\* lines 502-507: the query returns; an exception, or no rows, ends the call with []
\* (the except clause of lines 529-531 logs and returns, it does not raise)
Get_fetch_rows ==
    /\ reads.pc = "fetch_rows"
    /\ \E outcome \in fetch_all(pool) :
          LET rows == IF outcome = "ok"
                      THEN rows_for(db, reads.moment_id, reads.limit) ELSE <<>>
          IN reads' = [reads EXCEPT !.pc = IF rows = <<>> THEN "returned" ELSE "fetch_factors",
                                    !.rows = rows, !.failed = (outcome = "failed")]
    /\ UNCHANGED <<vcall, cache, nba, tasks, batch, pool, db, calls, context, requests, retry>>

\* lines 507-527: the factor query of row k returns and the row is rebuilt; a row
\* without context makes the no-argument MarketContextReasoning() raise, and any
\* exception ends the call with []; the rows are a local that ends with the call
Get_fetch_factors ==
    /\ reads.pc = "fetch_factors"
    /\ \E outcome \in fetch_all(pool) :
          LET row == reads.rows[reads.k]
          IN IF outcome # "ok" THEN
                 reads' = [reads EXCEPT !.pc = "returned", !.out = <<>>, !.failed = TRUE,
                                        !.rows = <<>>, !.k = 1]
             ELSE IF ~row.has_context THEN
                 reads' = [reads EXCEPT !.pc = "returned", !.out = <<>>,
                                        !.rows = <<>>, !.k = 1]
             ELSE \E factors \in factor_rows(db, row.id) :
                 reads' = [reads EXCEPT
                              !.pc = IF reads.k < Len(reads.rows)
                                     THEN "fetch_factors" ELSE "returned",
                              !.k = IF reads.k < Len(reads.rows) THEN reads.k + 1 ELSE 1,
                              !.rows = IF reads.k < Len(reads.rows) THEN @ ELSE <<>>,
                              !.out = Append(@, reasoning_of(row, factors))]
    /\ UNCHANGED <<vcall, cache, nba, tasks, batch, pool, db, calls, context, requests, retry>>

InitStore ==
    /\ vcall = NoCall
    /\ cache = NoCache
    /\ nba = NoSession
    /\ tasks = <<>>
    /\ batch = NoBatch
    /\ pool \in BOOLEAN
    /\ db = NoStore
    /\ calls = <<>>
    /\ reads = NoRead
    /\ context = NoContext
    /\ requests = <<>>
    /\ retry = NoRetry

NextStore ==
    \/ Store_call
    \/ Store_parent
    \/ Store_factor
    \/ Store_context
    \/ Get_call
    \/ Get_fetch_rows
    \/ Get_fetch_factors

SpecStore == InitStore /\ [][NextStore]_vars

-----------------------------------------------------------------------------
(* Properties of the reasoning store *)

\* C11: when a query of get_reasoning_by_moment, search_reasoning or
\* calculate_performance_metrics raises, the operation is not retried and hands the
\* failure to its caller as an error, distinguishable from an empty or zero result.
C11_StoreFailureSurfaced ==
    reads # NoRead =>
        (reads.failed => (reads.pc = "returned" /\ reads.raised))

HasParent(id) == \E i \in 1..Len(db.parents) : db.parents[i].id = id

HasFactor(id, name) ==
    \E i \in 1..Len(db.factors) : db.factors[i].reasoning_id = id /\ db.factors[i].name = name

\* the write is in the store
Stored(w) ==
    IF w.table = "ai_reasoning" THEN HasParent(w.reasoning_id)
    ELSE IF w.table = "reasoning_factors" THEN HasFactor(w.reasoning_id, w.name)
    ELSE w.reasoning_id \in db.contexts

\* C7: a store_reasoning call that returns, for a result with n factors, has sent
\* exactly n + 2 writes: the parent record, one factor row per factor in list order, the
\* context row, all with the one freshly generated reasoning id, which it returns.
C7_StoreWritesInOrder ==
    \A c \in 1..Len(calls) :
        calls[c].pc = "returned" =>
            LET n == Len(calls[c].result.factors)
                w == calls[c].writes
            IN /\ Len(w) = n + 2
               /\ w[1].table = "ai_reasoning"
               /\ \A k \in 1..n :
                     /\ w[k + 1].table = "reasoning_factors"
                     /\ w[k + 1].name = calls[c].result.factors[k].name
               /\ w[n + 2].table = "reasoning_context"
               /\ \A k \in 1..(n + 2) : w[k].reasoning_id = calls[c].id
               /\ calls[c].returned = calls[c].id
               /\ \A d \in 1..Len(calls) : d # c => calls[d].id # calls[c].id

\* a second call returned after writing a parent, two factor rows and the context row
C7_Witness ==
    /\ pool
    /\ Len(calls) = 2
    /\ calls[2].pc = "returned"
    /\ Len(calls[2].result.factors) = 2
    /\ Len(calls[2].writes) = 4
    /\ \A k \in 1..4 : Stored(calls[2].writes[k])

\* C26: whenever store_reasoning returns a reasoning id without raising, the durable
\* store holds the parent record with that id, one factor row per factor and the
\* context row, in every state of the database client, a client whose connection pool
\* was never initialized included.
C26_ReturnedIdIsStored ==
    \A c \in 1..Len(calls) :
        calls[c].pc = "returned" =>
            /\ HasParent(calls[c].returned)
            /\ \A k \in 1..Len(calls[c].result.factors) :
                  HasFactor(calls[c].returned, calls[c].result.factors[k].name)
            /\ calls[c].returned \in db.contexts

\* C8: when a write of store_reasoning fails, the call raises, returns no id and sends
\* no later write, and the writes that completed before the failure stay in the store.
C8_FailedWriteRaisesAndLeavesEarlierWrites ==
    \A c \in 1..Len(calls) :
        /\ \A k \in 1..Len(calls[c].writes) :
              calls[c].writes[k].outcome = "failed" =>
                  /\ calls[c].pc = "raised"
                  /\ calls[c].returned = 0
                  /\ k = Len(calls[c].writes)
                  /\ \A j \in 1..(k - 1) :
                        calls[c].writes[j].outcome = "ok" /\ Stored(calls[c].writes[j])
        /\ calls[c].pc = "raised" =>
              /\ calls[c].writes # <<>>
              /\ calls[c].writes[Len(calls[c].writes)].outcome = "failed"

\* the context write failed: the parent record and a factor row are in the store, the
\* context row is not
C8_Witness ==
    \E c \in 1..Len(calls) :
        /\ calls[c].pc = "raised"
        /\ calls[c].writes[Len(calls[c].writes)].table = "reasoning_context"
        /\ HasParent(calls[c].id)
        /\ Len(calls[c].result.factors) >= 1
        /\ HasFactor(calls[c].id, calls[c].result.factors[1].name)
        /\ calls[c].id \notin db.contexts

\* the factors are in order of descending weight
DescendingWeight(factors) ==
    \A a \in 1..(Len(factors) - 1) : factors[a].weight >= factors[a + 1].weight

\* C9: for every result that store_reasoning stored, with every write done, before
\* get_reasoning_by_moment was called for its moment with limit >= 1 on an initialized
\* client whose queries do not fail, the records returned include one with the same
\* decision, confidence score and number of factors, its factors by descending weight.
C9_StoredResultIsReturned ==
    (reads.pc = "returned" /\ pool /\ ~reads.failed) =>
        \A c \in reads.after :
            calls[c].result.moment_id = reads.moment_id =>
                \E k \in 1..Len(reads.out) :
                    /\ reads.out[k].decision = calls[c].result.decision
                    /\ reads.out[k].confidence_score = calls[c].result.confidence_score
                    /\ Len(reads.out[k].factors) = Len(calls[c].result.factors)
                    /\ DescendingWeight(reads.out[k].factors)

-----------------------------------------------------------------------------
(* src/services/reasoning_service.py: the functions that turn an analysis result into
   a decision, a primary reasoning sentence and an explanation.  A text is the sequence
   of its characters. *)

UpperCase == <<"A", "B", "C", "D", "E", "F", "G", "H", "I", "J", "K", "L", "M",
               "N", "O", "P", "Q", "R", "S", "T", "U", "V", "W", "X", "Y", "Z">>

LowerCase == <<"a", "b", "c", "d", "e", "f", "g", "h", "i", "j", "k", "l", "m",
               "n", "o", "p", "q", "r", "s", "t", "u", "v", "w", "x", "y", "z">>

\* str.lower()
str_lower(text) ==
    [i \in 1..Len(text) |->
        IF \E k \in 1..26 : UpperCase[k] = text[i]
        THEN LowerCase[CHOOSE k \in 1..26 : UpperCase[k] = text[i]]
        ELSE text[i]]

\* sub in text
contains(text, sub) ==
    \E i \in 0..(Len(text) - Len(sub)) : SubSeq(text, i + 1, i + Len(sub)) = sub

strong_buy == <<"s", "t", "r", "o", "n", "g", " ", "b", "u", "y">>
buy == <<"b", "u", "y">>
sell == <<"s", "e", "l", "l">>
hold == <<"h", "o", "l", "d">>

\* the mapping with the tests made on the text as given
map_recommendation_to_decision_as_given(recommendation) ==
    IF contains(recommendation, strong_buy) \/ contains(recommendation, buy) THEN "buy"
    ELSE IF contains(recommendation, sell) THEN "sell"
    ELSE IF contains(recommendation, hold) THEN "hold"
    ELSE "skip"

\* ReasoningService._map_recommendation_to_decision
map_recommendation_to_decision(recommendation) ==
    LET recommendation_lower == str_lower(recommendation)
    IN IF contains(recommendation_lower, strong_buy) \/ contains(recommendation_lower, buy)
       THEN "buy"
       ELSE IF contains(recommendation_lower, sell) THEN "sell"
       ELSE IF contains(recommendation_lower, hold) THEN "hold"
       ELSE "skip"

-----------------------------------------------------------------------------
(* The recommendation texts the mapping is called with *)

MaxWords == 2       \* most words in a recommendation text

Words ==
    { <<"S", "t", "r", "o", "n", "g">>, <<"B", "u", "y">>, <<"B", "U", "Y">>,
      <<"b", "u", "y">>, <<"S", "e", "l", "l">>, <<"R", "E", "S", "E", "L", "L">>,
      <<"H", "o", "l", "d">>, <<"h", "o", "l", "d", "e", "r">>,
      <<"s", "k", "i", "p">>, <<"u", "n", "k", "n", "o", "w", "n">>,
      <<"b", "y">>, <<"S", "e", "l">> }

\* " ".join(words)
RECURSIVE join(_)
join(words) ==
    IF words = <<>> THEN <<>>
    ELSE IF Len(words) = 1 THEN words[1]
    ELSE words[1] \o <<" ">> \o join(Tail(words))

Recommendations == {join(ws) : ws \in SeqsUpTo(Words, MaxWords)}

Call_map_recommendation_to_decision ==
    /\ vcall = NoCall
    /\ \E recommendation \in Recommendations :
          vcall' = [op |-> "map_recommendation_to_decision",
                    recommendation |-> recommendation,
                    out |-> map_recommendation_to_decision(recommendation)]
    /\ UNCHANGED <<cache, nba, tasks, batch, pool, db, calls, reads, context, requests, retry>>

-----------------------------------------------------------------------------
(* src/services/reasoning_service.py: _generate_primary_reasoning and the effective
   generate_human_explanation.  Prices and fair values are in thousandths of a dollar,
   confidences in thousandths, impacts in whole percent.  A sentence is the record of
   its template (named by its opening words) and of the values its slots are filled
   with. *)

abs(x) == IF x < 0 THEN -x ELSE x

\* f"{amount:.2f}": the dollars and the cents of the amount rounded to the nearest cent
\* (the amounts below never sit on half a cent)
format_2f(amount) ==
    LET cents == (amount + 5) \div 10
    IN [dollars |-> cents \div 100, cents |-> cents % 100]

\* f"{confidence*100:.0f}": the whole percent nearest to the confidence (the confidences
\* below never sit on half a percent)
format_percent(confidence) == (confidence + 5) \div 10

\* max(factors, key=lambda f: abs(f.impact)): the first factor of greatest absolute impact
top_factor(factors) ==
    factors[CHOOSE i \in 1..Len(factors) :
               /\ \A j \in 1..Len(factors) : abs(factors[j].impact) <= abs(factors[i].impact)
               /\ \A j \in 1..(i - 1) : abs(factors[j].impact) < abs(factors[i].impact)]

KeyError == [kind |-> "raised", error |-> "KeyError"]

\* ReasoningService._generate_primary_reasoning; market_analysis is <<>> when the dict
\* has no 'current_price' and <<price>> when it has
generate_primary_reasoning(analysis_result, factors) ==
    LET decision == map_recommendation_to_decision(analysis_result.recommendation)
    IN IF analysis_result.market_analysis = <<>> THEN KeyError
       ELSE LET current_price == analysis_result.market_analysis[1]
                fair_value == analysis_result.fair_value
                confidence == analysis_result.confidence_score
                Sentence(template, default, with_confidence) ==
                    [kind |-> "sentence", template |-> template,
                     fair_value |-> format_2f(fair_value),
                     current_price |-> format_2f(current_price),
                     cited |-> IF factors # <<>> THEN top_factor(factors).name ELSE default,
                     confidence |-> IF with_confidence THEN <<format_percent(confidence)>>
                                    ELSE <<>>]
            IN IF decision = "buy"
               THEN IF fair_value * 10 > current_price * 11
                    THEN Sentence("Strong buy opportunity", "Multiple factors", TRUE)
                    ELSE Sentence("Buy recommendation", "Analysis factors", FALSE)
               ELSE IF decision = "sell"
               THEN Sentence("Sell recommendation", "Valuation metrics", FALSE)
               ELSE IF decision = "hold"
               THEN Sentence("Hold recommendation", "Market uncertainty", FALSE)
               ELSE Sentence("Skip recommendation", "Risk assessment", TRUE)

\* sorted(factors, key=lambda f: abs(f.impact), reverse=True): the sort is stable, so
\* factors of equal absolute impact keep their order
sorted_by_impact(factors) ==
    LET rank(i) == 1 + Cardinality({j \in 1..Len(factors) :
                        \/ abs(factors[j].impact) > abs(factors[i].impact)
                        \/ (abs(factors[j].impact) = abs(factors[i].impact) /\ j < i)})
    IN [k \in 1..Len(factors) |-> factors[CHOOSE i \in 1..Len(factors) : rank(i) = k]]

\* lines 840-853: what could change the decision
change_factors(decision) ==
    IF decision = "buy"
    THEN <<"Significant price increase above fair value",
           "Negative player performance trends",
           "Market sentiment turning bearish">>
    ELSE IF decision = "skip"
    THEN <<"Price dropping closer to fair value",
           "Improved player performance metrics",
           "Positive market momentum">>
    ELSE <<>>

\* ReasoningService.generate_human_explanation, the definition at line 804, which
\* replaces the one at line 670; the fields copied from the reasoning result
\* (detailed_explanation, supporting_stats, market_context, risk_assessment) are left out
generate_human_explanation(reasoning_result) ==
    LET decision_action == IF reasoning_result.decision = "buy" THEN "purchase"
                           ELSE IF reasoning_result.decision = "hold" THEN "hold onto"
                           ELSE reasoning_result.decision
        top_factors == SubSeq(sorted_by_impact(reasoning_result.factors), 1,
                              min(3, Len(reasoning_result.factors)))
    IN [summary |-> [action |-> decision_action,
                     confidence |-> format_percent(reasoning_result.confidence_score)],
        key_factors |-> [k \in 1..Len(top_factors) |->
                            [name |-> top_factors[k].name,
                             description |-> top_factors[k].description]],
        confidence_explanation |->
            IF reasoning_result.confidence_score >= 800 THEN "High confidence"
            ELSE IF reasoning_result.confidence_score >= 600 THEN "Moderate confidence"
            ELSE "Lower confidence",
        what_could_change_decision |-> change_factors(reasoning_result.decision)]

-----------------------------------------------------------------------------
(* The inputs the reasoning functions are called with *)

MaxFactors == 4     \* most factors in a reasoning result

ReasoningFactor(name, description, impact) ==
    [name |-> name, description |-> description, impact |-> impact]

ReasoningFactors ==
    { ReasoningFactor("Player Performance Analysis", "strong recent form", 60),
      ReasoningFactor("Market Trend Analysis", "falling floor price", -60),
      ReasoningFactor("Scarcity and Rarity Analysis", "low serial number", 25),
      ReasoningFactor("Social Sentiment Analysis", "few mentions", -5) }

\* analysis results as the valuator builds them and as POST /generate accepts them: the
\* market_analysis of a MomentAnalysisResult is any dict
PrimaryInputs ==
    [recommendation : {join(<<w>>) : w \in {<<"B", "u", "y">>, <<"S", "e", "l", "l">>,
                                            <<"H", "o", "l", "d">>, <<"s", "k", "i", "p">>}},
     market_analysis : {<<>>, <<120000>>, <<140000>>, <<99999>>},
     fair_value : {150000, 100004},
     confidence_score : {850, 504, 0}]

ReasoningResults ==
    [decision : {"buy", "sell", "hold", "skip"},
     confidence_score : {850, 600, 300},
     factors : SeqsUpTo(ReasoningFactors, MaxFactors)]

Call_generate_primary_reasoning ==
    /\ vcall = NoCall
    /\ \E analysis_result \in PrimaryInputs, factors \in SeqsUpTo(ReasoningFactors, 2) :
          vcall' = [op |-> "generate_primary_reasoning",
                    analysis_result |-> analysis_result,
                    factors |-> factors,
                    out |-> generate_primary_reasoning(analysis_result, factors)]
    /\ UNCHANGED <<cache, nba, tasks, batch, pool, db, calls, reads, context, requests, retry>>

Call_generate_human_explanation ==
    /\ vcall = NoCall
    /\ \E reasoning_result \in ReasoningResults :
          vcall' = [op |-> "generate_human_explanation",
                    reasoning_result |-> reasoning_result,
                    out |-> generate_human_explanation(reasoning_result)]
    /\ UNCHANGED <<cache, nba, tasks, batch, pool, db, calls, reads, context, requests, retry>>

-----------------------------------------------------------------------------
(* src/services/reasoning_service.py: generate_reasoning_factors.  A valuation factor
   is the record of its fields with cls the class of the object; weights are in
   hundredths, values and impacts in thousandths. *)

\* ReasoningFactor: weight ge 0 le 1, impact ge -100 le 100, confidence ge 0 le 1
AcceptsReasoningFactor(k) ==
    /\ 0 <= k.weight /\ k.weight <= 100
    /\ -100000 <= k.impact /\ k.impact <= 100000
    /\ 0 <= k.confidence /\ k.confidence <= 1000

\* the type tag and the supporting data _convert_to_reasoning_factor picks by isinstance
tag_of(factor) ==
    IF factor.cls = "PlayerPerformanceFactor"
    THEN [factor_type |-> "player_performance", name |-> "Player Performance Analysis",
          supporting_data |->
              [recent_games_performance |-> factor.recent_games_performance,
               season_performance |-> factor.season_performance,
               career_trajectory |-> factor.career_trajectory,
               clutch_performance |-> factor.clutch_performance]]
    ELSE IF factor.cls = "ScarcityFactor"
    THEN [factor_type |-> "scarcity", name |-> "Scarcity and Rarity Analysis",
          supporting_data |->
              [serial_number_rarity |-> factor.serial_number_rarity,
               moment_type_rarity |-> factor.moment_type_rarity,
               player_moment_count |-> factor.player_moment_count,
               total_circulation |-> factor.total_circulation]]
    ELSE IF factor.cls = "MarketTrendFactor"
    THEN [factor_type |-> "market_trend", name |-> "Market Trend Analysis",
          supporting_data |->
              [price_momentum |-> factor.price_momentum,
               volume_trend |-> factor.volume_trend,
               market_sentiment |-> factor.market_sentiment,
               comparable_sales_count |-> Len(factor.comparable_sales)]]
    ELSE IF factor.cls = "SocialSentimentFactor"
    THEN [factor_type |-> "social_sentiment", name |-> "Social Sentiment Analysis",
          supporting_data |->
              [social_mentions |-> factor.social_mentions,
               sentiment_score |-> factor.sentiment_score,
               viral_potential |-> factor.viral_potential,
               influencer_mentions |-> factor.influencer_mentions]]
    ELSE [factor_type |-> "fundamental_analysis", name |-> "General Analysis Factor",
          supporting_data |-> EmptyDict]

\* the conversion with the tag read from the factor's own factor_type field
convert_to_reasoning_factor_by_field(factor) ==
    LET k == [factor_type |-> factor.factor_type, name |-> tag_of(factor).name,
              weight |-> factor.weight, value |-> factor.value,
              impact |-> factor.impact, confidence |-> 800,
              description |-> factor.description,
              supporting_data |-> tag_of(factor).supporting_data]
    IN [status |-> IF AcceptsReasoningFactor(k) THEN "ok" ELSE "raised", factor |-> k]

\* ReasoningService._convert_to_reasoning_factor
convert_to_reasoning_factor(factor) ==
    LET k == [factor_type |-> tag_of(factor).factor_type, name |-> tag_of(factor).name,
              weight |-> factor.weight, value |-> factor.value,
              impact |-> factor.impact, confidence |-> 800,
              description |-> factor.description,
              supporting_data |-> tag_of(factor).supporting_data]
    IN [status |-> IF AcceptsReasoningFactor(k) THEN "ok" ELSE "raised", factor |-> k]

\* ReasoningService.generate_reasoning_factors: one conversion per factor, in order; a
\* conversion that raises ends the call
generate_reasoning_factors(factors) ==
    LET converted == [i \in 1..Len(factors) |-> convert_to_reasoning_factor(factors[i])]
    IN IF \E i \in 1..Len(factors) : converted[i].status = "raised"
       THEN [kind |-> "raised", factors |-> <<>>]
       ELSE [kind |-> "ok", factors |-> [i \in 1..Len(factors) |-> converted[i].factor]]

MaxAnalysisFactors == 3     \* most factors in an analysis result

\* one valid factor of each class, and a plain ValuationFactor that calls itself scarcity
ValuationFactors ==
    { [cls |-> "PlayerPerformanceFactor", factor_type |-> "player_performance",
       weight |-> 40, value |-> 850, impact |-> 15000,
       description |-> "Strong recent performance",
       recent_games_performance |-> EmptyDict, season_performance |-> EmptyDict,
       career_trajectory |-> "ascending", clutch_performance |-> 700],
      [cls |-> "ScarcityFactor", factor_type |-> "scarcity",
       weight |-> 25, value |-> 900, impact |-> 20000,
       description |-> "Low serial number",
       serial_number_rarity |-> 900, moment_type_rarity |-> 800,
       player_moment_count |-> 50, total_circulation |-> 1000],
      [cls |-> "MarketTrendFactor", factor_type |-> "market_trend",
       weight |-> 25, value |-> 300, impact |-> -100000,
       description |-> "Falling floor price",
       price_momentum |-> -20000, volume_trend |-> 0, market_sentiment |-> -400,
       comparable_sales |-> <<110, 130>>],
      [cls |-> "SocialSentimentFactor", factor_type |-> "social_sentiment",
       weight |-> 0, value |-> 500, impact |-> 0,
       description |-> "Few mentions",
       social_mentions |-> 3, sentiment_score |-> 0, viral_potential |-> 10000,
       influencer_mentions |-> 0],
      [cls |-> "ValuationFactor", factor_type |-> "scarcity",
       weight |-> 100, value |-> -250, impact |-> 100000,
       description |-> "Scarcity as a plain factor"] }

Call_generate_reasoning_factors ==
    /\ vcall = NoCall
    /\ \E factors \in SeqsUpTo(ValuationFactors, MaxAnalysisFactors) :
          vcall' = [op |-> "generate_reasoning_factors",
                    factors |-> factors,
                    out |-> generate_reasoning_factors(factors)]
    /\ UNCHANGED <<cache, nba, tasks, batch, pool, db, calls, reads, context, requests, retry>>

\* the dict a factor held in MomentAnalysisResult.factors is serialized to: the field
\* is declared List[ValuationFactor], so the dump has the fields of ValuationFactor, and
\* a dict has no class
dump_factor(factor) ==
    [factor_type |-> factor.factor_type, weight |-> factor.weight,
     value |-> factor.value, description |-> factor.description,
     impact |-> factor.impact]

\* the object MomentAnalysisResult(**data) builds from a factor dict: the field's
\* declared class, ValuationFactor, whatever class the factor had when it was dumped
parse_factor(d) ==
    [cls |-> "ValuationFactor", factor_type |-> d.factor_type, weight |-> d.weight,
     value |-> d.value, description |-> d.description, impact |-> d.impact]

\* POST /generate: the analysis result arrives serialized, is rebuilt into a
\* MomentAnalysisResult and handed to generate_detailed_reasoning, whose factors are
\* those of generate_reasoning_factors; analyze_moment rebuilds a cached result the
\* same way
Call_generate_reasoning ==
    /\ vcall = NoCall
    /\ \E factors \in SeqsUpTo(ValuationFactors, 2) :
          LET body == [i \in 1..Len(factors) |-> dump_factor(factors[i])]
              rebuilt == [i \in 1..Len(body) |-> parse_factor(body[i])]
          IN vcall' = [op |-> "generate_reasoning",
                       sent |-> factors,
                       body |-> body,
                       out |-> generate_reasoning_factors(rebuilt)]
    /\ UNCHANGED <<cache, nba, tasks, batch, pool, db, calls, reads, context, requests, retry>>

NextReasoning ==
    \/ Call_map_recommendation_to_decision
    \/ Call_generate_primary_reasoning
    \/ Call_generate_human_explanation
    \/ Call_generate_reasoning_factors
    \/ Call_generate_reasoning

SpecReasoning == InitValuator /\ [][NextReasoning]_vars

-----------------------------------------------------------------------------
(* Properties of the reasoning functions *)

\* the text has the word somewhere, each letter in either case
Mentions(text, word) ==
    \E i \in 0..(Len(text) - Len(word)) :
        \A k \in 1..Len(word) :
            \E a \in 1..26 : /\ LowerCase[a] = word[k]
                             /\ text[i + k] \in {LowerCase[a], UpperCase[a]}

\* C13: _map_recommendation_to_decision maps any recommendation text, whatever its case,
\* to exactly one of buy, sell, hold, skip: buy if the text contains "buy", otherwise
\* sell if it contains "sell", otherwise hold if it contains "hold", otherwise skip.
C13_DecisionBySubstring ==
    vcall.op = "map_recommendation_to_decision" =>
        LET text == vcall.recommendation
        IN /\ vcall.out \in {"buy", "sell", "hold", "skip"}
           /\ vcall.out = "buy" <=> Mentions(text, buy)
           /\ vcall.out = "sell" <=> (~Mentions(text, buy) /\ Mentions(text, sell))
           /\ vcall.out = "hold" <=> (~Mentions(text, buy) /\ ~Mentions(text, sell)
                                        /\ Mentions(text, hold))

\* a text in capitals that has both "sell" and "buy" was mapped to buy
C13_Witness ==
    /\ vcall.op = "map_recommendation_to_decision"
    /\ vcall.recommendation = <<"R", "E", "S", "E", "L", "L", " ", "B", "U", "Y">>
    /\ vcall.out = "buy"

\* the factors have no factor of greater absolute impact than the named one
GreatestImpact(factors, name) ==
    \E i \in 1..Len(factors) :
        /\ factors[i].name = name
        /\ \A j \in 1..Len(factors) : abs(factors[j].impact) <= abs(factors[i].impact)

\* C19: _generate_primary_reasoning never fails, also for an empty factor list, and picks
\* its sentence from the decision and the price gap: for decision buy with fair_value
\* above 1.1 times the current price it returns the strong-buy sentence naming the fair
\* value, the current price and the confidence as a whole percentage (price 120, fair
\* value 150 and confidence 0.85 give "$150.00", "$120.00" and "85%"), and in every case
\* it cites the factor of greatest absolute impact when there is one.
C19_PrimaryReasoningNeverFails ==
    vcall.op = "generate_primary_reasoning" =>
        LET input == vcall.analysis_result
        IN /\ vcall.out.kind = "sentence"
           /\ vcall.factors # <<>> => GreatestImpact(vcall.factors, vcall.out.cited)
           /\ (/\ map_recommendation_to_decision(input.recommendation) = "buy"
               /\ input.market_analysis # <<>>
               /\ input.fair_value * 10 > input.market_analysis[1] * 11) =>
                  /\ vcall.out.template = "Strong buy opportunity"
                  /\ vcall.out.confidence # <<>>
           /\ (/\ map_recommendation_to_decision(input.recommendation) = "buy"
               /\ input.market_analysis = <<120000>>
               /\ input.fair_value = 150000
               /\ input.confidence_score = 850) =>
                  /\ vcall.out.fair_value = [dollars |-> 150, cents |-> 0]
                  /\ vcall.out.current_price = [dollars |-> 120, cents |-> 0]
                  /\ vcall.out.confidence = <<85>>

\* C20: for every reasoning result, whatever its decision (buy, sell, hold or skip),
\* generate_human_explanation returns an explanation whose key_factors are the at most
\* three factors of greatest absolute impact and whose what_could_change_decision list
\* is a fixed, non-empty list of hypothetical factors.
C20_KeyFactorsAndChangeList ==
    vcall.op = "generate_human_explanation" =>
        LET factors == vcall.reasoning_result.factors
            key_factors == vcall.out.key_factors
        IN /\ Len(key_factors) = min(3, Len(factors))
           /\ \E chosen \in SUBSET (1..Len(factors)) :
                 /\ Cardinality(chosen) = Len(key_factors)
                 /\ \A i \in chosen : \A j \in (1..Len(factors)) \ chosen :
                        abs(factors[i].impact) >= abs(factors[j].impact)
                 /\ \A k \in 1..Len(key_factors) : \E i \in chosen :
                        /\ key_factors[k].name = factors[i].name
                        /\ key_factors[k].description = factors[i].description
           /\ vcall.out.what_could_change_decision # <<>>

\* the canonical type tag of a factor's variant
CanonicalTag(cls) ==
    CASE cls = "PlayerPerformanceFactor" -> "player_performance"
      [] cls = "ScarcityFactor" -> "scarcity"
      [] cls = "MarketTrendFactor" -> "market_trend"
      [] cls = "SocialSentimentFactor" -> "social_sentiment"
      [] OTHER -> "fundamental_analysis"

\* C21: generate_reasoning_factors never fails and is one-to-one and order-preserving:
\* for an analysis result with n factors it returns n reasoning factors, the i-th of
\* which copies the weight, value, impact and description of the i-th valuation factor
\* and carries the canonical type tag of that factor's variant, or fundamental_analysis
\* with empty supporting data for an unrecognized variant.
C21_ReasoningFactorsOneToOne ==
    vcall.op = "generate_reasoning_factors" =>
        /\ vcall.out.kind = "ok"
        /\ Len(vcall.out.factors) = Len(vcall.factors)
        /\ \A i \in 1..Len(vcall.factors) :
              LET given == vcall.factors[i]
                  made == vcall.out.factors[i]
              IN /\ made.weight = given.weight
                 /\ made.value = given.value
                 /\ made.impact = given.impact
                 /\ made.description = given.description
                 /\ made.factor_type = CanonicalTag(given.cls)
                 /\ made.factor_type = "fundamental_analysis" =>
                        DOMAIN made.supporting_data = {}

\* three factors were converted in order, the middle one a plain ValuationFactor that
\* calls itself scarcity
C21_Witness ==
    /\ vcall.op = "generate_reasoning_factors"
    /\ Len(vcall.factors) = 3
    /\ vcall.factors[1].cls = "MarketTrendFactor"
    /\ vcall.factors[2].cls = "ValuationFactor"
    /\ vcall.factors[3].cls = "PlayerPerformanceFactor"
    /\ vcall.out.kind = "ok"
    /\ vcall.out.factors[2].factor_type = "fundamental_analysis"
    /\ vcall.out.factors[3].factor_type = "player_performance"

\* C27: the type tag of each reasoning factor produced by generate_detailed_reasoning
\* is the same whether the analysis result comes directly from the valuator or was
\* rebuilt from its serialized form (rehydrated from the cache in analyze_moment, or
\* parsed from the body of the generate endpoint): a serialized-and-rebuilt scarcity
\* factor still yields a scarcity reasoning factor.
C27_TagSurvivesSerialization ==
    vcall.op = "generate_reasoning" =>
        LET direct == generate_reasoning_factors(vcall.sent)
        IN /\ vcall.out.kind = direct.kind
           /\ Len(vcall.out.factors) = Len(direct.factors)
           /\ \A i \in 1..Len(direct.factors) :
                 vcall.out.factors[i].factor_type = direct.factors[i].factor_type

-----------------------------------------------------------------------------
(* Properties of retrieval *)

\* the factor rows the store holds under a reasoning id
FactorsUnder(id) ==
    {Factor(db.factors[i].name, db.factors[i].weight) :
        i \in {j \in 1..Len(db.factors) : db.factors[j].reasoning_id = id}}

\* the record was built from the parent row created at its timestamp
BuiltFrom(record, parent) ==
    /\ parent.created_at = record.timestamp
    /\ parent.moment_id = record.moment_id
    /\ parent.decision = record.decision
    /\ {record.factors[i] : i \in 1..Len(record.factors)} = FactorsUnder(parent.id)
    /\ Len(record.factors) = Cardinality(FactorsUnder(parent.id))

\* C17: get_reasoning_by_moment(moment_id, limit) returns at most limit records, all for
\* the given moment id, most recent first by creation time, each with exactly the
\* factor rows stored under its own reasoning id.
C17_NewestFirstWithOwnFactors ==
    (reads # NoRead /\ reads.pc = "returned") =>
        /\ Len(reads.out) <= reads.limit
        /\ \A k \in 1..Len(reads.out) :
              /\ reads.out[k].moment_id = reads.moment_id
              /\ \E i \in 1..Len(db.parents) : BuiltFrom(reads.out[k], db.parents[i])
        /\ \A k \in 1..(Len(reads.out) - 1) :
              reads.out[k].timestamp > reads.out[k + 1].timestamp

\* two records of the moment came back, the newer one with its two factors first, the
\* older one with none second
C17_Witness ==
    /\ reads # NoRead
    /\ reads.pc = "returned"
    /\ reads.limit = 2
    /\ Len(reads.out) = 2
    /\ Len(reads.out[1].factors) = 2
    /\ Len(reads.out[2].factors) = 0

-----------------------------------------------------------------------------
(* src/services/reasoning_service.py: search_reasoning.  An Optional field of the query
   is <<>> for None and <<v>> for the value v; the lists are sequences.  created_at is
   the time the filters' dates are compared with. *)

Matching(parent, query) ==
    /\ query.moment_ids # <<>> =>
          \E i \in 1..Len(query.moment_ids) : query.moment_ids[i] = parent.moment_id
    /\ query.decision_types # <<>> =>
          \E i \in 1..Len(query.decision_types) : query.decision_types[i] = parent.decision
    /\ query.date_from # <<>> => parent.created_at >= query.date_from[1]
    /\ query.date_to # <<>> => parent.created_at <= query.date_to[1]
    /\ (query.min_confidence # <<>> /\ query.min_confidence[1] # 0) =>
          parent.confidence_score >= query.min_confidence[1]

\* SELECT COUNT(*) ... WHERE the filters
count_rows(store, query) ==
    Len(SelectSeq(store.parents, LAMBDA parent : Matching(parent, query)))

\* the page query: the matching rows, newest first, LIMIT limit OFFSET offset, each LEFT
\* JOINed with its context row
page_rows(store, query) ==
    LET matching == SelectSeq(store.parents, LAMBDA parent : Matching(parent, query))
        n == Len(matching)
    IN [i \in 1..min(query.limit, max(0, n - query.offset)) |->
           [id |-> matching[n + 1 - query.offset - i].id,
            created_at |-> matching[n + 1 - query.offset - i].created_at,
            moment_id |-> matching[n + 1 - query.offset - i].moment_id,
            decision |-> matching[n + 1 - query.offset - i].decision,
            confidence_score |-> matching[n + 1 - query.offset - i].confidence_score,
            has_context |-> matching[n + 1 - query.offset - i].id \in store.contexts]]

\* the ReasoningHistory built from a row and its factors
history_of(row, factors) ==
    [id |-> row.id, moment_id |-> row.moment_id,
     reasoning_result |-> reasoning_of(row, factors)]

\* every factor of every record of the page, in one list
RECURSIVE all_factors(_)
all_factors(results) ==
    IF results = <<>> THEN <<>>
    ELSE Head(results).reasoning_result.factors \o all_factors(Tail(results))

\* ReasoningService._calculate_search_aggregations; the empty dict it returns for an
\* empty page is the record whose field empty is TRUE
calculate_search_aggregations(results) ==
    IF results = <<>> THEN [decision_distribution |-> EmptyDict,
                            average_confidence |-> 0,
                            factor_type_distribution |-> EmptyDict,
                            total_results |-> 0, empty |-> TRUE]
    ELSE LET decisions == {results[i].reasoning_result.decision : i \in 1..Len(results)}
             factors == all_factors(results)
             factor_types == {factors[i].name : i \in 1..Len(factors)}
         IN [decision_distribution |->
                 [d \in decisions |->
                     Cardinality({i \in 1..Len(results) :
                                     results[i].reasoning_result.decision = d})],
             average_confidence |->
                 SumSeq([i \in 1..Len(results) |->
                            results[i].reasoning_result.confidence_score]) \div Len(results),
             factor_type_distribution |->
                 [t \in factor_types |-> Cardinality({i \in 1..Len(factors) : factors[i].name = t})],
             total_results |-> Len(results),
             empty |-> FALSE]

\* ReasoningSearchResult
SearchResult(total_count, results) ==
    [total_count |-> total_count, results |-> results,
     aggregations |-> calculate_search_aggregations(results)]

\* the result of the except clause, lines 666-668
SearchFailed == SearchResult(0, <<>>)

SearchQueries ==
    [moment_ids : {<<>>, <<"m1">>, <<"m2">>},
     decision_types : {<<>>, <<"buy">>},
     min_confidence : {<<>>, <<500>>},
     date_from : {<<>>, <<2>>},
     date_to : {<<>>, <<1>>},
     limit : {1, 2},
     offset : {0, 1}]

\* search_reasoning is called: the WHERE clause is built and the count query is sent
Search_call ==
    /\ reads = NoRead
    /\ \E query \in SearchQueries :
          reads' = [pc |-> "count", query |-> query, seen |-> 0, total_count |-> 0,
                    rows |-> <<>>, k |-> 1, results |-> <<>>, out |-> SearchFailed,
                    failed |-> FALSE, raised |-> FALSE]
    /\ UNCHANGED <<vcall, cache, nba, tasks, batch, pool, db, calls, context, requests, retry>>

\* DatabaseClient.fetch_one: without a pool it returns None; with one the query runs or
\* raises
fetch_one(has_pool) == IF has_pool THEN {"ok", "failed"} ELSE {"none"}

\* lines 607-628: the count query returns and the page query is sent
Search_count ==
    /\ reads.pc = "count"
    /\ \E outcome \in fetch_one(pool) :
          reads' = IF outcome = "failed"
                   THEN [reads EXCEPT !.pc = "returned", !.failed = TRUE, !.out = SearchFailed]
                   ELSE [reads EXCEPT !.pc = "fetch_rows", !.seen = Len(db.parents),
                                      !.total_count = IF outcome = "ok"
                                                      THEN count_rows(db, reads.query) ELSE 0]
    /\ UNCHANGED <<vcall, cache, nba, tasks, batch, pool, db, calls, context, requests, retry>>

\* lines 628-633: the page query returns; without rows the result is returned at once
Search_fetch_rows ==
    /\ reads.pc = "fetch_rows"
    /\ \E outcome \in fetch_all(pool) :
          LET rows == IF outcome = "ok" THEN page_rows(db, reads.query) ELSE <<>>
          IN reads' = IF outcome = "failed"
                      THEN [reads EXCEPT !.pc = "returned", !.failed = TRUE,
                                         !.out = SearchFailed]
                      ELSE IF rows = <<>>
                      THEN [reads EXCEPT !.pc = "returned",
                                         !.out = SearchResult(reads.total_count, <<>>)]
                      ELSE [reads EXCEPT !.pc = "fetch_factors", !.rows = rows]
    /\ UNCHANGED <<vcall, cache, nba, tasks, batch, pool, db, calls, context, requests, retry>>

\* lines 633-668: the factor query of row k returns and the row is rebuilt; a failed
\* query, and a row without context, end the call in the except clause; after the last
\* row the result is returned with the aggregations of the page
Search_fetch_factors ==
    /\ reads.pc = "fetch_factors"
    /\ \E outcome \in fetch_all(pool) :
          LET row == reads.rows[reads.k]
          IN IF outcome # "ok" THEN
                 reads' = [reads EXCEPT !.pc = "returned", !.failed = TRUE,
                                        !.out = SearchFailed, !.rows = <<>>, !.k = 1,
                                        !.results = <<>>]
             ELSE IF ~row.has_context THEN
                 reads' = [reads EXCEPT !.pc = "returned", !.out = SearchFailed,
                                        !.rows = <<>>, !.k = 1, !.results = <<>>]
             ELSE \E factors \in factor_rows(db, row.id) :
                 LET results == Append(reads.results, history_of(row, factors))
                 IN reads' = IF reads.k < Len(reads.rows)
                             THEN [reads EXCEPT !.k = reads.k + 1, !.results = results]
                             ELSE [reads EXCEPT !.pc = "returned", !.rows = <<>>, !.k = 1,
                                                !.results = <<>>,
                                                !.out = SearchResult(reads.total_count,
                                                                     results)]
    /\ UNCHANGED <<vcall, cache, nba, tasks, batch, pool, db, calls, context, requests, retry>>

NextSearch ==
    \/ Store_call
    \/ Store_parent
    \/ Store_factor
    \/ Store_context
    \/ Search_call
    \/ Search_count
    \/ Search_fetch_rows
    \/ Search_fetch_factors

SpecSearch == InitStore /\ [][NextSearch]_vars

-----------------------------------------------------------------------------
(* Properties of search *)

\* C18: search_reasoning returns a total_count equal to the number of stored records
\* matching the moment-id, decision-type, confidence-floor and date-range filters,
\* whatever limit and offset are, and aggregations (decision distribution, average
\* confidence, factor-type distribution) computed from exactly the records of the
\* returned page.  The count is taken over the records stored when the count query ran,
\* and no query of the search failed.
C18_TotalCountAndPageAggregations ==
    (reads # NoRead /\ reads.pc = "returned" /\ ~reads.failed) =>
        /\ reads.out.total_count =
               Cardinality({i \in 1..reads.seen : Matching(db.parents[i], reads.query)})
        /\ reads.out.aggregations.total_results = Len(reads.out.results)
        /\ \A d \in DOMAIN reads.out.aggregations.decision_distribution :
               reads.out.aggregations.decision_distribution[d] =
                   Cardinality({i \in 1..Len(reads.out.results) :
                                   reads.out.results[i].reasoning_result.decision = d})

-----------------------------------------------------------------------------
(* src/services/ai_service.py: analyze_moment and analyze_moment_with_reasoning with
   the reasoning service in place.  A call is one coroutine of either operation for
   moment m1; each action runs it from one await to the next.  The provider's part
   (get_player_performance_metrics) is one step here, and store_reasoning is one step
   with the outcome of its writes; the analysis a reasoning record was written for is
   kept with the record. *)

MaxAnalyses == 2    \* calls of analyze_moment / analyze_moment_with_reasoning

\* store_reasoning as a whole: without a pool every write is a no-op and the id is
\* returned; with one, all rows are written, or the parent INSERT raises, or a later
\* INSERT raises and the parent row stays
store_reasoning(has_pool) == IF has_pool THEN {"ok", "failed", "partial"} ELSE {"noop"}

NoAnalysis == [src |-> "none", by |-> 0]
CachedAnalysis == [src |-> "cached", by |-> 0]
ComputedAnalysis(i) == [src |-> "computed", by |-> i]

\* the parent row store_reasoning writes for the analysis, when its INSERT ran
store_parent(store, i, analysis, outcome) ==
    IF outcome \in {"ok", "partial"}
    THEN [store EXCEPT !.parents = Append(@, [id |-> Len(store.parents) + 1, by |-> i,
                                               moment_id |-> tasks[i].req.moment_id,
                                               analysis |-> analysis])]
    ELSE store

\* the call is made; the reasoning store answers this call's writes with one outcome
Analysis_call ==
    /\ Len(tasks) < MaxAnalyses
    /\ \E op \in {"analyze_moment", "analyze_moment_with_reasoning"},
          req \in {r \in ServiceRequests : r.moment_id = "m1"},
          outcome \in store_reasoning(pool) :
          tasks' = Append(tasks, [op |-> op, req |-> req, pc |-> "cache_get",
                                  analysis_read |-> "none", metrics |-> "none",
                                  store |-> outcome, storing |-> "none",
                                  analysis |-> NoAnalysis, cache_write |-> "none",
                                  stored |-> 0, result |-> Pending])
    /\ UNCHANGED <<vcall, cache, nba, batch, pool, db, calls, reads, context, requests, retry>>

\* analyze_moment, lines 135-140: the cache read returns.  A hit is rebuilt and returned:
\* analyze_moment ends, analyze_moment_with_reasoning generates the reasoning for it and
\* sends it to the store (lines 405-418); a blob the record rejects raises in both
Analysis_cache_get ==
    \E i \in 1..Len(tasks) :
       /\ tasks[i].pc = "cache_get"
       /\ \E redis_ok \in BOOLEAN :
             LET t == tasks[i]
                 cached == get_cached_data(analysis_key(t.req), redis_ok)
                 read == IF ~redis_ok THEN "error" ELSE IF cached = "None" THEN "miss" ELSE "hit"
             IN Step(i, IF cached = "invalid"
                          THEN [t EXCEPT !.pc = "done", !.analysis_read = read,
                                         !.result = RaisedResult]
                        ELSE IF cached = "valid" /\ t.op = "analyze_moment"
                          THEN [t EXCEPT !.pc = "done", !.analysis_read = read,
                                         !.analysis = CachedAnalysis,
                                         !.result = AnalysisResult(t.req.moment_id)]
                        ELSE IF cached = "valid"
                          THEN [t EXCEPT !.pc = "store", !.analysis_read = read,
                                         !.analysis = CachedAnalysis, !.storing = "outer"]
                        ELSE [t EXCEPT !.pc = "metrics", !.analysis_read = read])
       /\ UNCHANGED <<vcall, cache, nba, batch, pool, db, calls, reads, context, requests, retry>>

\* lines 142-170: get_player_performance_metrics returns; without metrics the call
\* returns None; with metrics the valuator runs, an exception of it returns None, and
\* a result has its reasoning generated and sent to the store
Analysis_metrics ==
    \E i \in 1..Len(tasks) :
       /\ tasks[i].pc = "metrics"
       /\ \E metrics \in {"metrics", "None"} :
             LET t == tasks[i]
                 r == MomentValuator_analyze_moment(t.req, SampleMetrics,
                                                    service_market_data, service_social_data)
             IN Step(i, IF metrics = "None" \/ r.status # "ok"
                          THEN [t EXCEPT !.pc = "done", !.metrics = metrics,
                                         !.result = NoneResult]
                        ELSE [t EXCEPT !.pc = "store", !.metrics = metrics,
                                       !.analysis = ComputedAnalysis(i),
                                       !.storing = "inner"])
       /\ UNCHANGED <<vcall, cache, nba, batch, pool, db, calls, reads, context, requests, retry>>

\* store_reasoning returns or raises.  Inside analyze_moment (lines 163-185) a failure is
\* logged, the result is written to the cache and returned; analyze_moment_with_reasoning
\* then generates the reasoning again and sends it to the store (lines 410-418).  After
\* that second store the call returns (lines 419-422)
Analysis_store ==
    \E i \in 1..Len(tasks) :
       /\ tasks[i].pc = "store"
       /\ LET t == tasks[i]
              wrote == IF t.store \in {"ok", "partial"} THEN 1 ELSE 0
          IN /\ db' = store_parent(db, i, t.analysis, t.store)
             /\ IF t.storing = "inner"
                THEN \E redis_ok \in BOOLEAN :
                        /\ cache' = set_cached_data(analysis_key(t.req), redis_ok)
                        /\ Step(i, IF t.op = "analyze_moment"
                                   THEN [t EXCEPT !.pc = "done",
                                                  !.stored = t.stored + wrote,
                                                  !.cache_write = IF redis_ok THEN "ok"
                                                                  ELSE "error",
                                                  !.result = AnalysisResult(t.req.moment_id)]
                                   ELSE [t EXCEPT !.storing = "outer",
                                                  !.stored = t.stored + wrote,
                                                  !.cache_write = IF redis_ok THEN "ok"
                                                                  ELSE "error"])
                ELSE /\ cache' = cache
                     /\ Step(i, [t EXCEPT !.pc = "done", !.stored = t.stored + wrote,
                                          !.result = AnalysisResult(t.req.moment_id)])
       /\ UNCHANGED <<vcall, nba, batch, pool, calls, reads, context, requests, retry>>

\* Redis outlives the service and may hold an analysis of m1 an earlier run left there
InitAnalysis ==
    /\ vcall = NoCall
    /\ cache \in {c \in [CacheKeys -> Blobs] :
                     \A k \in CacheKeys : k # <<"moment_analysis", "m1">> => c[k] = "absent"}
    /\ nba = NoSession
    /\ tasks = <<>>
    /\ batch = NoBatch
    /\ pool \in BOOLEAN
    /\ db = NoStore
    /\ calls = <<>>
    /\ reads = NoRead
    /\ context = NoContext
    /\ requests = <<>>
    /\ retry = NoRetry

NextAnalysis ==
    \/ Analysis_call
    \/ Analysis_cache_get
    \/ Analysis_metrics
    \/ Analysis_store

SpecAnalysis == InitAnalysis /\ [][NextAnalysis]_vars

-----------------------------------------------------------------------------
(* Properties of analysis with reasoning *)

\* the parent records written for the analysis
RecordsFor(analysis) == {k \in 1..Len(db.parents) : db.parents[k].analysis = analysis}

-----------------------------------------------------------------------------
(* Correlation ids: CorrelationContext, FastBreakLogger._log and the
   middleware of error_handler_middleware (src/utils/error_handling.py).
   CorrelationContext._context is one dict of the class, shared by every
   request the process handles.  A request's coroutine runs from one await to
   the next; between the middleware's set and the end of call_next the handler
   awaits, and another request's middleware may run. *)

MaxRequests == 2
MaxReads == 2

\* str(uuid.uuid4()): the k-th id generated for request r, equal to no other id
uuid4(r, k) == <<"uuid4", r, k>>

\* the x-correlation-id header of request r: absent, or an id of the client's.
\* Two requests never carry the same id.
Headers(r) == {<<>>, << <<"x-correlation-id", r, 0>> >>}

\* CorrelationContext.set(key, correlation_id)
CorrelationContext_set(ctx, key, correlation_id) ==
    [k \in DOMAIN ctx \cup {key} |-> IF k = key THEN correlation_id ELSE ctx[k]]

\* CorrelationContext.get(key): the id under key, a new uuid4 when there is none
CorrelationContext_get(ctx, key, new_id) == Get(ctx, key, new_id)

\* middleware, up to await call_next: the id is taken from the header or
\* generated, kept in the local correlation_id and set under 'default';
\* "Request started" is logged with the local id
Middleware_start ==
    /\ Len(requests) < MaxRequests
    /\ \E header \in Headers(Len(requests) + 1) :
          LET r == Len(requests) + 1
              correlation_id == IF header = <<>> THEN uuid4(r, 0) ELSE header[1]
          IN  /\ context' = CorrelationContext_set(context, "default", correlation_id)
              /\ requests' = Append(requests,
                     [header |-> header,
                      correlation_id |-> correlation_id,
                      pc |-> "call_next",
                      records |-> <<correlation_id>>,
                      reads |-> <<>>,
                      response |-> <<>>])
    /\ UNCHANGED <<vcall, cache, nba, tasks, batch, pool, db, calls, reads, retry>>

\* FastBreakLogger._log called without a correlation_id while the request is
\* handled: the record carries CorrelationContext.get()
Logger_log ==
    /\ \E r \in 1..Len(requests) :
          /\ requests[r].pc = "call_next"
          /\ Len(requests[r].reads) < MaxReads
          /\ LET id == CorrelationContext_get(context, "default",
                                              uuid4(r, Len(requests[r].reads) + 1))
             IN  requests' = [requests EXCEPT ![r].reads = Append(@, id),
                                              ![r].records = Append(@, id)]
    /\ UNCHANGED <<vcall, cache, nba, tasks, batch, pool, db, calls, reads, context, retry>>

\* middleware, after call_next: the response, or the error response of the
\* except clause; both are logged with the local correlation_id and carry it
\* in the x-correlation-id header.  The context is not cleared.
Middleware_finish ==
    /\ \E r \in 1..Len(requests), outcome \in {"response", "error"} :
          /\ requests[r].pc = "call_next"
          /\ requests' = [requests EXCEPT
                 ![r].pc = "done",
                 ![r].records = Append(@, requests[r].correlation_id),
                 ![r].response = <<[kind |-> outcome,
                                    x_correlation_id |-> requests[r].correlation_id]>>]
    /\ UNCHANGED <<vcall, cache, nba, tasks, batch, pool, db, calls, reads, context, retry>>

NextCorrelation ==
    \/ Middleware_start
    \/ Logger_log
    \/ Middleware_finish

SpecCorrelation == InitValuator /\ [][NextCorrelation]_vars

-----------------------------------------------------------------------------
(* Properties of the correlation context *)

\* C29: under every interleaving of two requests, each log record of a request
\* and its x-correlation-id response header carry that request's own id; a
\* read of CorrelationContext.get('default') made while request A is handled
\* never returns the id request B set.
C29_CorrelationIdIsTheRequestsOwn ==
    \A r \in 1..Len(requests) :
        /\ \A k \in 1..Len(requests[r].records) :
              requests[r].records[k] = requests[r].correlation_id
        /\ \A k \in 1..Len(requests[r].reads) :
              \A b \in 1..Len(requests) :
                  b # r => requests[r].reads[k] # requests[b].correlation_id
        /\ requests[r].pc = "done" =>
              requests[r].response[1].x_correlation_id = requests[r].correlation_id

\* the part of C29 the local variable of the middleware gives: the response
\* header is the request's own id
ResponseHeaderIsOwnId ==
    \A r \in 1..Len(requests) :
        requests[r].pc = "done" =>
            requests[r].response[1].x_correlation_id = requests[r].correlation_id

-----------------------------------------------------------------------------
(* with_retry (src/utils/error_handling.py).  One call: the operation is
   awaited once per attempt and either returns or raises; between two attempts
   the coroutine sleeps.  The delay of the sleep (base_delay, backoff, jitter)
   is finite and decides nothing else, so it is not part of the state. *)

MaxAttempts == 4

\* RetryConfig.__init__: max_attempts is 3 unless given
RetryConfig(max_attempts) == [max_attempts |-> IF max_attempts = <<>> THEN 3 ELSE max_attempts[1]]

\* the config argument: None, or a RetryConfig
RetryConfigs == {<<>>} \cup {<<RetryConfig(<<m>>)>> : m \in 0..MaxAttempts}

\* what one await operation() ends with: a result, or an error.
\* FastBreakAppError carries retryable; CancelledError derives from
\* BaseException only, so `except Exception` does not catch it.
Returned == [raised |-> FALSE, cls |-> "result", retryable |-> FALSE]
Errors ==
    {[raised |-> TRUE, cls |-> "FastBreakAppError", retryable |-> TRUE],
     [raised |-> TRUE, cls |-> "FastBreakAppError", retryable |-> FALSE],
     [raised |-> TRUE, cls |-> "Exception", retryable |-> FALSE],
     [raised |-> TRUE, cls |-> "CancelledError", retryable |-> FALSE]}
Outcomes == {Returned} \cup Errors

\* raise last_error with last_error None
RaiseNone == [raised |-> TRUE, cls |-> "TypeError", retryable |-> FALSE]

\* the body of the for loop after operation() ended with outcome, one more
\* attempt than the loop allows
after_attempt_one_more(attempt, max_attempts, outcome) ==
    IF ~outcome.raised THEN "returned"
    ELSE IF outcome.cls = "CancelledError" THEN "raised"
    ELSE IF outcome.cls = "FastBreakAppError" /\ ~outcome.retryable THEN "raised"
    ELSE IF attempt = max_attempts + 1 THEN "raised"
    ELSE "sleep"

\* the body of the for loop after operation() ended with outcome: return the
\* result, raise the error, or sleep and go round again
after_attempt(attempt, max_attempts, outcome) ==
    IF ~outcome.raised THEN "returned"
    ELSE IF outcome.cls = "CancelledError" THEN "raised"
    ELSE IF outcome.cls = "FastBreakAppError" /\ ~outcome.retryable THEN "raised"
    ELSE IF attempt = max_attempts THEN "raised"
    ELSE "sleep"

\* with_retry is called: config defaults to RetryConfig(); range(1,
\* max_attempts + 1) is empty for max_attempts < 1 and the function falls
\* through to `raise last_error`
Retry_call ==
    /\ retry = NoRetry
    /\ \E c \in RetryConfigs :
          LET config == IF c = <<>> THEN RetryConfig(<<>>) ELSE c[1]
          IN  retry' = IF config.max_attempts < 1
                       THEN [pc |-> "raised", config |-> c,
                             max_attempts |-> config.max_attempts,
                             attempt |-> 0, outcomes |-> <<>>, out |-> <<RaiseNone>>]
                       ELSE [pc |-> "operation", config |-> c,
                             max_attempts |-> config.max_attempts,
                             attempt |-> 1, outcomes |-> <<>>, out |-> <<>>]
    /\ UNCHANGED <<vcall, cache, nba, tasks, batch, pool, db, calls, reads, context, requests>>

\* await operation() ends
Retry_operation ==
    /\ retry.pc = "operation"
    /\ \E outcome \in Outcomes :
          LET pc == after_attempt(retry.attempt, retry.max_attempts, outcome)
          IN  retry' = [retry EXCEPT
                  !.pc = pc,
                  !.outcomes = Append(@, outcome),
                  !.out = IF pc = "sleep" THEN <<>> ELSE <<outcome>>]
    /\ UNCHANGED <<vcall, cache, nba, tasks, batch, pool, db, calls, reads, context, requests>>

\* await asyncio.sleep(delay) ends: the next attempt
Retry_sleep ==
    /\ retry.pc = "sleep"
    /\ retry' = [retry EXCEPT !.pc = "operation", !.attempt = @ + 1]
    /\ UNCHANGED <<vcall, cache, nba, tasks, batch, pool, db, calls, reads, context, requests>>

NextRetry ==
    \/ Retry_call
    \/ Retry_operation
    \/ Retry_sleep

SpecRetry == InitValuator /\ [][NextRetry]_vars

\* An awaited operation returns or raises, and a sleep of a finite delay ends;
\* the event loop then resumes the coroutine.
SpecRetryLive == SpecRetry /\ WF_vars(Retry_operation) /\ WF_vars(Retry_sleep)

-----------------------------------------------------------------------------
(* Properties of with_retry *)

\* an error the loop retries: caught by `except Exception` and not a
\* FastBreakAppError with retryable false
Retryable(outcome) ==
    /\ outcome.raised
    /\ outcome.cls # "CancelledError"
    /\ ~(outcome.cls = "FastBreakAppError" /\ ~outcome.retryable)

Ended == retry.pc \in {"returned", "raised"}

RetryBounds ==
    (retry.pc # "none" /\ retry.max_attempts >= 1) =>
        LET n == Len(retry.outcomes)
        IN  /\ n <= retry.max_attempts
            /\ Ended => n >= 1
            \* every invocation but the last failed with an error that is retried
            /\ \A k \in 1..n : (k < n \/ ~Ended) => Retryable(retry.outcomes[k])
            /\ retry.pc = "returned" =>
                  /\ ~retry.outcomes[n].raised
                  /\ retry.out = <<retry.outcomes[n]>>
            /\ retry.pc = "raised" =>
                  /\ retry.outcomes[n].raised
                  /\ retry.out = <<retry.outcomes[n]>>
                  /\ Retryable(retry.outcomes[n]) => n = retry.max_attempts

\* C30: for max_attempts >= 1 with_retry invokes the operation at least once
\* and at most max_attempts times; it returns the first result without
\* invoking again, re-raises at once an error that is not retried, re-raises
\* the last error after exactly max_attempts failed invocations otherwise; and
\* every call ends.
C30_RetryBoundedAndTerminates ==
    /\ []RetryBounds
    /\ (retry.pc # "none") ~> Ended

C30_Witness ==
    /\ retry.pc = "raised"
    /\ retry.max_attempts = 3
    /\ Len(retry.outcomes) = 3
    /\ Retryable(retry.outcomes[3])

====
